---- MODULE Spec2Model ----
(***************************************************************************)
(* A model of the Apito plugin SDK (package sdk: sdk.go, helpers.go).      *)
(*                                                                         *)
(* Go values held in interface{} are modelled as tagged records            *)
(* [t |-> <dynamic type>, v |-> <payload>], so that every type switch and  *)
(* type assertion of the source is a test of the tag.  A Go string is a    *)
(* sequence of chunks: single characters where the source parses or        *)
(* formats the string (strconv.Atoi, fmt.Sprintf), whole words where the   *)
(* source only compares or concatenates it ("Int" + "!").                  *)
(* A float is a fixed-point number counted in tenths (37 is 3.7).          *)
(***************************************************************************)
EXTENDS Integers, Sequences, FiniteSets, TLC

(***************************************************************************)
(* Bounds of the model.                                                    *)
(***************************************************************************)
\* Width of the Go int in bits (64 in a real build, scaled down here).
IntBits == 8

\* Nesting depth of the type tags.
MaxDepth == 2

\* The number of object-schema builders the program creates.
MaxBuilders == 1

\* The number of REST endpoints a program registers.
MaxRoutes == 2

\* The number of custom health checks a program registers.
MaxChecks == 2

MaxInt == 2 ^ (IntBits - 1) - 1

MinInt == 0 - 2 ^ (IntBits - 1)

(***************************************************************************)
(* Go values in interface{}.                                               *)
(***************************************************************************)
NilV == [t |-> "nil", v |-> 0]

BoolV(b) == [t |-> "bool", v |-> b]

IntV(n) == [t |-> "int", v |-> n]

Int64V(n) == [t |-> "int64", v |-> n]

Float64V(x) == [t |-> "float64", v |-> x]

Float32V(x) == [t |-> "float32", v |-> x]

StrV(s) == [t |-> "string", v |-> s]

MapV(m) == [t |-> "map", v |-> m]

SliceV(s) == [t |-> "slice", v |-> s]

StrSliceV(s) == [t |-> "[]string", v |-> s]

IntSliceV(s) == [t |-> "[]int", v |-> s]

BoolSliceV(s) == [t |-> "[]bool", v |-> s]

\* A Go string that the source treats as one word.
W(word) == IF word = "" THEN <<>> ELSE <<word>>

\* The empty map[string]interface{}.
EmptyMap == [k \in {} |-> NilV]

(***************************************************************************)
(* strconv and fmt, as far as the source uses them.                        *)
(***************************************************************************)
Digits == <<"0", "1", "2", "3", "4", "5", "6", "7", "8", "9">>

IsDigit(c) == \E i \in 1..10 : Digits[i] = c

DigitVal(c) == (CHOOSE i \in 1..10 : Digits[i] = c) - 1

AllDigits(s) == Len(s) > 0 /\ \A i \in 1..Len(s) : IsDigit(s[i])

RECURSIVE DigitsValue(_)
DigitsValue(s) ==
  IF Len(s) = 0 THEN 0
  ELSE DigitsValue(SubSeq(s, 1, Len(s) - 1)) * 10 + DigitVal(s[Len(s)])

HasSign(s) == Len(s) > 0 /\ s[1] \in {"+", "-"}

Unsigned(s) == IF HasSign(s) THEN Tail(s) ELSE s

Signed(s, n) == IF HasSign(s) /\ s[1] = "-" THEN 0 - n ELSE n

\* strconv.Atoi: an optional sign and decimal digits; a syntax error or a
\* value outside the int range is an error.
Atoi(s) ==
  IF ~AllDigits(Unsigned(s)) THEN [ok |-> FALSE, val |-> 0]
  ELSE LET n == Signed(s, DigitsValue(Unsigned(s)))
       IN  IF n > MaxInt \/ n < MinInt THEN [ok |-> FALSE, val |-> 0]
           ELSE [ok |-> TRUE, val |-> n]

\* The decimal digits of a natural number.
RECURSIVE NatDigits(_)
NatDigits(n) ==
  IF n < 10 THEN <<Digits[n + 1]>>
  ELSE NatDigits(n \div 10) \o <<Digits[(n % 10) + 1]>>

FormatInt(n) == IF n < 0 THEN <<"-">> \o NatDigits(0 - n) ELSE NatDigits(n)

Abs(n) == IF n < 0 THEN 0 - n ELSE n

\* %v of a float: the shortest decimal that reads back (tenths here).
FormatFloat(x) ==
  (IF x < 0 THEN <<"-">> ELSE <<>>) \o NatDigits(Abs(x) \div 10)
    \o (IF Abs(x) % 10 = 0 THEN <<>> ELSE <<".", Digits[(Abs(x) % 10) + 1]>>)

\* Position of the decimal point in s, 0 when there is none.
DotAt(s) == IF \E i \in 1..Len(s) : s[i] = "." THEN CHOOSE i \in 1..Len(s) : s[i] = "." ELSE 0

\* strconv.ParseFloat(s, 64) on decimal strings with at most one fractional
\* digit: sign, digits, optional point and digit.  The result is in tenths.
ParseFloat(s) ==
  LET u == Unsigned(s)
      d == DotAt(u)
      whole == IF d = 0 THEN u ELSE SubSeq(u, 1, d - 1)
      frac == IF d = 0 THEN <<>> ELSE SubSeq(u, d + 1, Len(u))
  IN  IF AllDigits(whole) /\ Len(frac) <= 1 /\ (Len(frac) = 0 \/ AllDigits(frac))
      THEN [ok |-> TRUE,
            val |-> Signed(s, DigitsValue(whole) * 10 + DigitsValue(frac))]
      ELSE [ok |-> FALSE, val |-> 0]

\* Keys of the model's maps in the order fmt prints them (sorted).
KeyOrder == <<"a", "b", "c", "id", "items", "n", "x", "y">>

RECURSIVE JoinWith(_, _)
JoinWith(parts, sep) ==
  IF Len(parts) = 0 THEN <<>>
  ELSE IF Len(parts) = 1 THEN parts[1]
  ELSE parts[1] \o sep \o JoinWith(Tail(parts), sep)

\* fmt.Sprintf("%v", value)
RECURSIVE Sprintf(_)
Sprintf(value) ==
  CASE value.t = "nil" -> <<"<nil>">>
    [] value.t = "bool" -> IF value.v THEN <<"true">> ELSE <<"false">>
    [] value.t \in {"int", "int64"} -> FormatInt(value.v)
    [] value.t \in {"float64", "float32"} -> FormatFloat(value.v)
    [] value.t = "string" -> value.v
    [] value.t = "slice" ->
         <<"[">> \o JoinWith([i \in 1..Len(value.v) |-> Sprintf(value.v[i])], <<" ">>) \o <<"]">>
    [] value.t = "[]string" ->
         <<"[">> \o JoinWith(value.v, <<" ">>) \o <<"]">>
    [] value.t = "[]int" ->
         <<"[">> \o JoinWith([i \in 1..Len(value.v) |-> FormatInt(value.v[i])], <<" ">>) \o <<"]">>
    [] value.t = "[]bool" ->
         <<"[">> \o JoinWith([i \in 1..Len(value.v) |->
                               IF value.v[i] THEN <<"true">> ELSE <<"false">>], <<" ">>) \o <<"]">>
    [] value.t = "map" ->
         LET keys == SelectSeq(KeyOrder, LAMBDA k : k \in DOMAIN value.v)
         IN  <<"map[">> \o JoinWith([i \in 1..Len(keys) |->
                                      <<keys[i], ":">> \o Sprintf(value.v[keys[i]])], <<" ">>) \o <<"]">>
    [] OTHER -> <<"?">>

(***************************************************************************)
(* The argument coercion engine (helpers.go, ArgParser).                   *)
(***************************************************************************)
\* int(v) of a float64 in the int range: the fraction is discarded.
TruncFloat(x) == IF x < 0 THEN 0 - ((0 - x) \div 10) ELSE x \div 10

parseString(rawValue) ==
  IF rawValue.t = "nil" THEN <<>>
  ELSE IF rawValue.t = "string" THEN rawValue.v
  ELSE Sprintf(rawValue)

\* parseInt with the float rounded down instead of cut off.
parseInt_floor(rawValue) ==
  CASE rawValue.t = "int" -> rawValue.v
    [] rawValue.t = "int64" -> rawValue.v
    [] rawValue.t = "float64" -> rawValue.v \div 10
    [] rawValue.t = "string" /\ Atoi(rawValue.v).ok -> Atoi(rawValue.v).val
    [] OTHER -> 0

parseInt(rawValue) ==
  CASE rawValue.t = "int" -> rawValue.v
    [] rawValue.t = "int64" -> rawValue.v
    [] rawValue.t = "float64" -> TruncFloat(rawValue.v)
    [] rawValue.t = "string" /\ Atoi(rawValue.v).ok -> Atoi(rawValue.v).val
    [] OTHER -> 0

\* parseBoolean that also reads the strings "true" and "1", as GetBoolArg does.
parseBoolean_lenient(rawValue) ==
  IF rawValue.t = "bool" THEN rawValue.v
  ELSE rawValue.t = "string" /\ rawValue.v \in {<<"true">>, <<"1">>}

parseBoolean(rawValue) == IF rawValue.t = "bool" THEN rawValue.v ELSE FALSE

parseFloat(rawValue) ==
  CASE rawValue.t = "float64" -> rawValue.v
    [] rawValue.t = "float32" -> rawValue.v
    [] rawValue.t = "int" -> rawValue.v * 10
    [] rawValue.t = "int64" -> rawValue.v * 10
    [] rawValue.t = "string" /\ ParseFloat(rawValue.v).ok -> ParseFloat(rawValue.v).val
    [] OTHER -> 0

parseStringArray(rawValue) ==
  IF rawValue.t = "slice"
  THEN [i \in 1..Len(rawValue.v) |-> parseString(rawValue.v[i])]
  ELSE <<parseString(rawValue)>>

\* parseIntArray that leaves out the elements that are no numbers, as
\* GetIntArrayArg does.
parseIntArray_skip(rawValue) ==
  IF rawValue.t = "slice"
  THEN LET kept == SelectSeq(rawValue.v, LAMBDA item : item.t \in {"int", "int64", "float64"})
       IN  [i \in 1..Len(kept) |-> parseInt(kept[i])]
  ELSE <<parseInt(rawValue)>>

parseIntArray(rawValue) ==
  IF rawValue.t = "slice"
  THEN [i \in 1..Len(rawValue.v) |-> parseInt(rawValue.v[i])]
  ELSE <<parseInt(rawValue)>>

parseBooleanArray(rawValue) ==
  IF rawValue.t = "slice"
  THEN [i \in 1..Len(rawValue.v) |-> parseBoolean(rawValue.v[i])]
  ELSE <<parseBoolean(rawValue)>>

\* ArgTypeOf that takes a trailing "!" off the type string before the dispatch.
ArgTypeOf_trim(argDefMap) ==
  IF "type" \in DOMAIN argDefMap /\ argDefMap["type"].t = "string"
  THEN LET s == argDefMap["type"].v
       IN  IF Len(s) > 0 /\ s[Len(s)] = "!" THEN SubSeq(s, 1, Len(s) - 1) ELSE s
  ELSE <<>>

\* argDefMap["type"].(string): the empty string when absent or no string.
ArgTypeOf(argDefMap) ==
  IF "type" \in DOMAIN argDefMap /\ argDefMap["type"].t = "string"
  THEN argDefMap["type"].v
  ELSE <<>>

RECURSIVE parseValue(_, _), parseObject(_, _), parseObjectArray(_, _)
\* parseObject that keeps the declared properties only.
parseObject_declared(rawValue, argDef) ==
  IF rawValue.t = "map"
  THEN IF "properties" \in DOMAIN argDef /\ argDef["properties"].t = "map"
       THEN LET propMap == argDef["properties"].v
            IN  [propName \in DOMAIN rawValue.v \cap DOMAIN propMap |->
                   parseValue(rawValue.v[propName], propMap[propName])]
       ELSE rawValue.v
  ELSE EmptyMap

parseObject(rawValue, argDef) ==
  IF rawValue.t = "map"
  THEN IF "properties" \in DOMAIN argDef /\ argDef["properties"].t = "map"
       THEN LET propMap == argDef["properties"].v
            IN  [propName \in DOMAIN rawValue.v |->
                   IF propName \in DOMAIN propMap
                   THEN parseValue(rawValue.v[propName], propMap[propName])
                   ELSE rawValue.v[propName]]
       ELSE rawValue.v
  ELSE EmptyMap

parseObjectArray(rawValue, argDef) ==
  IF rawValue.t = "slice"
  THEN [i \in 1..Len(rawValue.v) |-> MapV(parseObject(rawValue.v[i], argDef))]
  ELSE <<rawValue>>

parseValue(rawValue, argDef) ==
  IF argDef.t = "map"
  THEN LET argDefMap == argDef.v
           argType == ArgTypeOf(argDefMap)
       IN  CASE argType = <<"Object">> -> MapV(parseObject(rawValue, argDefMap))
             [] argType \in {<<"[", "Object", "]">>, <<"[", "Object", "!", "]">>} ->
                  SliceV(parseObjectArray(rawValue, argDefMap))
             [] argType \in {<<"[", "String", "]">>, <<"[", "String", "!", "]">>} ->
                  StrSliceV(parseStringArray(rawValue))
             [] argType \in {<<"[", "Int", "]">>, <<"[", "Int", "!", "]">>} ->
                  IntSliceV(parseIntArray(rawValue))
             [] argType \in {<<"[", "Boolean", "]">>, <<"[", "Boolean", "!", "]">>} ->
                  BoolSliceV(parseBooleanArray(rawValue))
             [] argType \in {<<"String">>, <<"String", "!">>} -> StrV(parseString(rawValue))
             [] argType \in {<<"Int">>, <<"Int", "!">>} -> IntV(parseInt(rawValue))
             [] argType \in {<<"Boolean">>, <<"Boolean", "!">>} -> BoolV(parseBoolean(rawValue))
             [] argType \in {<<"Float">>, <<"Float", "!">>} -> Float64V(parseFloat(rawValue))
             [] OTHER -> rawValue
  ELSE rawValue

\* ArgParser.ParseArgs: one entry per declared argument that the raw
\* mapping holds with a non-nil value.
\* ParseArgs that walks the raw arguments and keeps the undeclared ones.
ParseArgs_rawKeys(fieldArgs, rawArgs) ==
  [argName \in DOMAIN rawArgs |->
     IF argName \in DOMAIN fieldArgs
     THEN parseValue(rawArgs[argName], fieldArgs[argName])
     ELSE rawArgs[argName]]

ParseArgs(fieldArgs, rawArgs) ==
  [argName \in {k \in DOMAIN fieldArgs : k \in DOMAIN rawArgs /\ rawArgs[k] # NilV} |->
     parseValue(rawArgs[argName], fieldArgs[argName])]

(***************************************************************************)
(* Argument definitions (helpers.go, Arg and its variants).                *)
(***************************************************************************)
Arg(argType, description) ==
  MapV([type |-> StrV(argType), description |-> StrV(W(description))])

NonNullArg(argType, description) == Arg(argType \o <<"!">>, description)

ListArg(itemType, description) == Arg(<<"[">> \o itemType \o <<"]">>, description)

ObjectArg(description, properties) ==
  MapV([type |-> StrV(<<"Object">>), description |-> StrV(W(description)),
        properties |-> MapV(properties)])

ArrayObjectArg(description, properties) ==
  MapV([type |-> StrV(<<"[", "Object", "]">>), description |-> StrV(W(description)),
        properties |-> MapV(properties)])

(***************************************************************************)
(* Type tags (sdk.go GraphQLTypeDefinition, helpers.go create*Type).       *)
(* OfType is a pointer: the empty sequence is nil, <<t>> points to t.      *)
(***************************************************************************)
TypeDefV(typeDef) == [t |-> "typedef", v |-> typeDef]

createScalarType(scalarType) ==
  [Kind |-> "scalar", Name |-> scalarType, OfType |-> <<>>, Fields |-> EmptyMap,
   ScalarType |-> scalarType]

createObjectType(name, fields) ==
  [Kind |-> "object", Name |-> name, OfType |-> <<>>, Fields |-> fields, ScalarType |-> ""]

createListType(ofType) ==
  [Kind |-> "list", Name |-> "", OfType |-> <<ofType>>, Fields |-> EmptyMap, ScalarType |-> ""]

createNonNullType(ofType) ==
  [Kind |-> "non_null", Name |-> "", OfType |-> <<ofType>>, Fields |-> EmptyMap,
   ScalarType |-> ""]

isScalarType(typeName) == typeName \in {"String", "Int", "Boolean", "Float", "ID"}

\* convertFieldType with listOfNonNull wrapping the list instead of its items.
convertFieldType_listNonNull(fieldDef) ==
  LET base == IF isScalarType(fieldDef.Type) THEN createScalarType(fieldDef.Type)
              ELSE [Kind |-> "object", Name |-> fieldDef.Type, OfType |-> <<>>,
                    Fields |-> EmptyMap, ScalarType |-> ""]
      listed == IF fieldDef.List
                THEN IF fieldDef.ListOfNonNull THEN createNonNullType(createListType(base))
                     ELSE createListType(base)
                ELSE base
  IN  IF ~fieldDef.Nullable THEN createNonNullType(listed) ELSE listed

\* The type of one object field: base type, list wrapper, non-null wrapper.
convertFieldType(fieldDef) ==
  LET base == IF isScalarType(fieldDef.Type) THEN createScalarType(fieldDef.Type)
              ELSE [Kind |-> "object", Name |-> fieldDef.Type, OfType |-> <<>>,
                    Fields |-> EmptyMap, ScalarType |-> ""]
      listed == IF fieldDef.List
                THEN IF fieldDef.ListOfNonNull THEN createListType(createNonNullType(base))
                     ELSE createListType(base)
                ELSE base
  IN  IF ~fieldDef.Nullable THEN createNonNullType(listed) ELSE listed

convertObjectFieldsToGraphQLFields(fields) ==
  [fieldName \in DOMAIN fields |->
     MapV([type |-> TypeDefV(convertFieldType(fields[fieldName])),
           description |-> StrV(W(fields[fieldName].Description))])]

\* helpers.go serializeObjectFields: the field specs as plain values.
serializeObjectFields(fields) ==
  [fieldName \in DOMAIN fields |->
     MapV([type |-> StrV(W(fields[fieldName].Type)),
           description |-> StrV(W(fields[fieldName].Description)),
           nullable |-> BoolV(fields[fieldName].Nullable),
           list |-> BoolV(fields[fieldName].List),
           listOfNonNull |-> BoolV(fields[fieldName].ListOfNonNull)])]

(***************************************************************************)
(* Field constructors (helpers.go).  An ObjectTypeDefinition is passed by  *)
(* value with its field map already read: [TypeName, Description, Fields]. *)
(***************************************************************************)
GraphQLField(type, description, args) ==
  [Type |-> type, Description |-> description, Args |-> args, Resolve |-> <<>>]

Field(fieldType, description) ==
  GraphQLField(TypeDefV(createScalarType(fieldType)), description, EmptyMap)

FieldWithArgs(fieldType, description, args) ==
  GraphQLField(TypeDefV(createScalarType(fieldType)), description, args)

ListField(itemType, description) ==
  GraphQLField(TypeDefV(createListType(createScalarType(itemType))), description, EmptyMap)

NonNullField(fieldType, description) ==
  GraphQLField(TypeDefV(createNonNullType(createScalarType(fieldType))), description, EmptyMap)

\* NonNullListField without the non-null wrapper of the items.
NonNullListField_nullableItems(itemType, description) ==
  GraphQLField(TypeDefV(createNonNullType(createListType(createScalarType(itemType)))),
               description, EmptyMap)

NonNullListField(itemType, description) ==
  GraphQLField(
    TypeDefV(createNonNullType(createListType(createNonNullType(createScalarType(itemType))))),
    description, EmptyMap)

ObjectTypeArgs(objectDef) ==
  [k \in {"objectType"} |->
     MapV([typeName |-> StrV(W(objectDef.TypeName)),
           description |-> StrV(W(objectDef.Description)),
           fields |-> MapV(serializeObjectFields(objectDef.Fields))])]

ComplexObjectField(description, objectDef) ==
  GraphQLField(
    TypeDefV(createObjectType(objectDef.TypeName,
                              convertObjectFieldsToGraphQLFields(objectDef.Fields))),
    description, ObjectTypeArgs(objectDef))

ListOfObjectsField(description, objectDef) ==
  GraphQLField(
    TypeDefV(createListType(createObjectType(objectDef.TypeName,
                              convertObjectFieldsToGraphQLFields(objectDef.Fields)))),
    description, ObjectTypeArgs(objectDef))

(***************************************************************************)
(* The schema serializer (sdk.go).                                         *)
(***************************************************************************)
RECURSIVE serializeTypeDefinition(_), serializeValue(_), serializeArgs(_),
          serializeGraphQLField(_), serializeType(_)
\* serializeTypeDefinition that writes the name under the scalar-type test.
serializeTypeDefinition_scalarName(typeDef) ==
  ("kind" :> StrV(W(typeDef.Kind)))
    @@ (IF typeDef.ScalarType # ""
        THEN ("name" :> StrV(W(typeDef.Name))) @@ ("scalarType" :> StrV(W(typeDef.ScalarType)))
        ELSE EmptyMap)
    @@ (IF Len(typeDef.OfType) > 0
        THEN ("ofType" :> MapV(serializeTypeDefinition(typeDef.OfType[1])))
        ELSE EmptyMap)
    @@ (IF DOMAIN typeDef.Fields # {}
        THEN ("fields" :> MapV(serializeArgs(typeDef.Fields)))
        ELSE EmptyMap)

serializeTypeDefinition(typeDef) ==
  ("kind" :> StrV(W(typeDef.Kind)))
    @@ (IF typeDef.Name # "" THEN ("name" :> StrV(W(typeDef.Name))) ELSE EmptyMap)
    @@ (IF typeDef.ScalarType # "" THEN ("scalarType" :> StrV(W(typeDef.ScalarType)))
        ELSE EmptyMap)
    @@ (IF Len(typeDef.OfType) > 0
        THEN ("ofType" :> MapV(serializeTypeDefinition(typeDef.OfType[1])))
        ELSE EmptyMap)
    @@ (IF DOMAIN typeDef.Fields # {}
        THEN ("fields" :> MapV(serializeArgs(typeDef.Fields)))
        ELSE EmptyMap)

serializeArgs(args) == [key \in DOMAIN args |-> serializeValue(args[key])]

serializeValue(value) ==
  CASE value.t = "map" -> MapV([key \in DOMAIN value.v |-> serializeValue(value.v[key])])
    [] value.t = "slice" -> SliceV([i \in 1..Len(value.v) |-> serializeValue(value.v[i])])
    [] value.t = "field" -> MapV(serializeGraphQLField(value.v))
    [] value.t = "typedef" -> MapV(serializeTypeDefinition(value.v))
    [] OTHER -> value

serializeType(fieldType) ==
  CASE fieldType.t = "string" ->
         MapV([kind |-> StrV(<<"scalar">>), scalarType |-> fieldType, name |-> fieldType])
    [] fieldType.t = "typedef" -> MapV(serializeTypeDefinition(fieldType.v))
    [] OTHER -> StrV(Sprintf(fieldType))

serializeGraphQLField(field) ==
  [type |-> serializeType(field.Type),
   description |-> StrV(W(field.Description)),
   resolve |-> StrV(field.Resolve)]
    @@ (IF DOMAIN field.Args # {} THEN ("args" :> MapV(serializeArgs(field.Args)))
        ELSE EmptyMap)

\* serializeObjectFieldType emitting the fields of an object type in place.
serializeObjectFieldType_withFields(fieldDef) ==
  LET base == IF isScalarType(fieldDef.Type)
              THEN MapV([kind |-> StrV(<<"scalar">>), name |-> StrV(W(fieldDef.Type)),
                         scalarType |-> StrV(W(fieldDef.Type))])
              ELSE MapV([kind |-> StrV(<<"object">>), name |-> StrV(W(fieldDef.Type)),
                         fields |-> MapV(EmptyMap)])
      listed == IF fieldDef.List
                THEN IF fieldDef.ListOfNonNull
                     THEN MapV([kind |-> StrV(<<"list">>),
                                ofType |-> MapV([kind |-> StrV(<<"non_null">>),
                                                 ofType |-> base])])
                     ELSE MapV([kind |-> StrV(<<"list">>), ofType |-> base])
                ELSE base
  IN  IF ~fieldDef.Nullable
      THEN MapV([kind |-> StrV(<<"non_null">>), ofType |-> listed])
      ELSE listed

\* sdk.go serializeObjectTypeDefinition, the type of one field.
serializeObjectFieldType(fieldDef) ==
  LET base == IF isScalarType(fieldDef.Type)
              THEN MapV([kind |-> StrV(<<"scalar">>), name |-> StrV(W(fieldDef.Type)),
                         scalarType |-> StrV(W(fieldDef.Type))])
              ELSE MapV([kind |-> StrV(<<"object">>), name |-> StrV(W(fieldDef.Type))])
      listed == IF fieldDef.List
                THEN IF fieldDef.ListOfNonNull
                     THEN MapV([kind |-> StrV(<<"list">>),
                                ofType |-> MapV([kind |-> StrV(<<"non_null">>),
                                                 ofType |-> base])])
                     ELSE MapV([kind |-> StrV(<<"list">>), ofType |-> base])
                ELSE base
  IN  IF ~fieldDef.Nullable
      THEN MapV([kind |-> StrV(<<"non_null">>), ofType |-> listed])
      ELSE listed

serializeObjectTypeDefinition(objectType) ==
  [kind |-> StrV(<<"object">>),
   name |-> StrV(W(objectType.TypeName)),
   description |-> StrV(W(objectType.Description)),
   fields |-> MapV([fieldName \in DOMAIN objectType.Fields |->
                      MapV([type |-> serializeObjectFieldType(objectType.Fields[fieldName]),
                            description |->
                              StrV(W(objectType.Fields[fieldName].Description))])])]

\* structpb.NewValue: whether the Go value has a wire form, and the wire
\* form read back as AsMap gives it (every number a float64).
RECURSIVE Encodable(_)
Encodable(value) ==
  CASE value.t \in {"nil", "bool", "string", "float64", "int", "int64", "float32"} -> TRUE
    [] value.t = "map" -> \A k \in DOMAIN value.v : Encodable(value.v[k])
    [] value.t = "slice" -> \A i \in 1..Len(value.v) : Encodable(value.v[i])
    [] OTHER -> FALSE

RECURSIVE Encoded(_)
Encoded(value) ==
  CASE value.t \in {"int", "int64"} -> Float64V(value.v * 10)
    [] value.t = "float32" -> Float64V(value.v)
    [] value.t = "map" -> MapV([k \in DOMAIN value.v |-> Encoded(value.v[k])])
    [] value.t = "slice" -> SliceV([i \in 1..Len(value.v) |-> Encoded(value.v[i])])
    [] OTHER -> value

NewValue(value) ==
  IF Encodable(value) THEN [ok |-> TRUE, val |-> Encoded(value)]
  ELSE [ok |-> FALSE, val |-> NilV]

NewStruct(m) == NewValue(MapV(m))

(***************************************************************************)
(* Complex-payload detection (sdk.go isComplexArrayData).  A handler       *)
(* result can be any Go value: besides the untyped containers, typed       *)
(* slices and maps and structs, told apart by reflection.                  *)
(***************************************************************************)
StructV(fields) == [t |-> "struct", v |-> fields]

TypedV(type, payload) == [t |-> type, v |-> payload]

\* reflect.Kind is Slice for these dynamic types, with this element type
\* ("" for []interface{}, whose elements carry their own type).
SliceElem ==
  [tag \in { "slice", "[]string", "[]int", "[]bool", "[]map[string]interface{}",
             "[]map[string]string", "[][]string", "[][]interface{}", "[]struct" } |->
     CASE tag = "slice" -> ""
       [] tag = "[]string" -> "string"
       [] tag = "[]int" -> "int"
       [] tag = "[]bool" -> "bool"
       [] tag = "[]map[string]interface{}" -> "map"
       [] tag = "[]map[string]string" -> "map[string]string"
       [] tag = "[][]string" -> "[]string"
       [] tag = "[][]interface{}" -> "slice"
       [] tag = "[]struct" -> "struct"]

\* reflect.Kind is Map for these dynamic types, with this value type.
MapElem ==
  [tag \in { "map", "map[string]string", "map[string][]interface{}" } |->
     CASE tag = "map" -> ""
       [] tag = "map[string]string" -> "string"
       [] tag = "map[string][]interface{}" -> "slice"]

\* val.Index(i).Interface() and val.MapIndex(key).Interface()
Index(val, i) ==
  IF SliceElem[val.t] = "" THEN val.v[i] ELSE TypedV(SliceElem[val.t], val.v[i])

MapIndex(val, key) ==
  IF MapElem[val.t] = "" THEN val.v[key] ELSE TypedV(MapElem[val.t], val.v[key])

RECURSIVE isComplexArrayData(_)
isComplexArrayData(data) ==
  \/ /\ data.t \in DOMAIN SliceElem
     /\ Len(data.v) # 0
     /\ Index(data, 1).t \in {"map", "slice", "struct"}
  \/ /\ data.t \in DOMAIN MapElem
     /\ \E key \in DOMAIN data.v : isComplexArrayData(MapIndex(data, key))

(***************************************************************************)
(* The state of the SDK.  A Go map is a reference: the field map made by   *)
(* NewObjectType lives in fieldMaps, and every copy of the builder's       *)
(* ObjectTypeDefinition (the builder's own, the one Build returns, the one *)
(* the plugin registers) holds the same index into it.                     *)
(***************************************************************************)
VARIABLES
  currentPlugin,   \* whether Init has set the global plugin instance
  queries,         \* Plugin.queries: name -> GraphQLField
  mutations,       \* Plugin.mutations: name -> GraphQLField
  resolvers,       \* Plugin.resolvers: name -> resolver
  objectTypes,     \* Plugin.objectTypes: type name -> ObjectTypeDefinition
  restAPIs,        \* Plugin.restAPIs: the registered RESTEndpoints, in order
  restHandlers,    \* Plugin.restHandlers: handler key -> handler
  functions,       \* Plugin.functions: name -> function
  healthChecks,    \* Plugin.healthChecks: the custom health checks, in order
  fieldMaps,       \* the field maps allocated by NewObjectType
  builders,        \* the ObjectTypeBuilders of the program (their def)
  built,           \* the ObjectTypeDefinitions Build has returned
  response,        \* the response of the plugin service call in progress
  call             \* the helper call in progress and its result

vars ==
  <<currentPlugin, queries, mutations, resolvers, objectTypes, restAPIs, restHandlers,
    functions, healthChecks, fieldMaps, builders, built, response, call>>

handlers == <<restAPIs, restHandlers, functions, healthChecks>>

plugin == <<currentPlugin, queries, mutations, resolvers, objectTypes, handlers>>

registry == <<plugin, fieldMaps, builders, built>>

NoCall == [op |-> "none"]

NoResponse == [op |-> "none"]

Idle == call = NoCall /\ response = NoResponse

(***************************************************************************)
(* Inputs of the coercion engine.                                          *)
(***************************************************************************)
RawStrings ==
  { <<"4", "2">>, <<"a", "b", "c">>, <<"-", "7">>, <<"+", "5">>, <<>>, <<"4", ".", "5">>,
    <<"3", "0", "0">>, <<"-", "3", "0", "0">>, <<"0", "0", "7">>, <<"-">>, <<"1">>,
    <<"true">>, <<"yes">>, <<"x">>, <<"y">> }

RawScalars ==
  { NilV, BoolV(TRUE), BoolV(FALSE), IntV(7), IntV(0 - 3), Int64V(5), Float64V(10),
    Float64V(37), Float64V(0 - 37), Float64V(420), Float64V(5), Float32V(15) }
    \cup { StrV(s) : s \in RawStrings }

RawMaps ==
  { MapV(EmptyMap),
    MapV([a |-> Float64V(10), b |-> Float64V(20)]),
    MapV([a |-> StrV(<<"4", "2">>)]),
    MapV([a |-> NilV, b |-> BoolV(TRUE)]),
    MapV([b |-> StrV(<<"x">>)]),
    MapV([a |-> Float64V(37), n |-> MapV([a |-> StrV(<<"4", "2">>), c |-> Float64V(10)])]),
    MapV([items |-> SliceV(<<Float64V(10), StrV(<<"4", "2">>)>>), x |-> StrV(<<"x">>)]) }

RawSlices ==
  { SliceV(<<>>),
    SliceV(<<StrV(<<"x">>), StrV(<<"y">>)>>),
    SliceV(<<Float64V(10), StrV(<<"4", "2">>), BoolV(TRUE)>>),
    SliceV(<<Float64V(0 - 37), StrV(<<"a", "b", "c">>), NilV>>),
    SliceV(<<BoolV(TRUE), StrV(<<"true">>), Float64V(10)>>),
    SliceV(<<MapV([a |-> Float64V(10), b |-> Float64V(20)]), StrV(<<"x">>)>>),
    SliceV(<<MapV([a |-> StrV(<<"4", "2">>)]), MapV(EmptyMap)>>) }

RawValues == RawScalars \cup RawMaps \cup RawSlices

TypeWords == {"Object", "String", "Int", "Boolean", "Float", "ID"}

\* The type strings an argument can be declared with: T, T!, [T], [T!], [T]!.
TypeStrings ==
  { <<w>> : w \in TypeWords } \cup { <<w, "!">> : w \in TypeWords }
    \cup { <<"[", w, "]">> : w \in TypeWords } \cup { <<"[", w, "!", "]">> : w \in TypeWords }
    \cup { <<"[", w, "]", "!">> : w \in TypeWords } \cup { <<>> }

Properties ==
  { [a \in {"a"} |-> Arg(<<"Int">>, "d")],
    [k \in {"a", "n"} |->
       IF k = "a" THEN Arg(<<"String">>, "d")
       ELSE ObjectArg("d", [a \in {"a"} |-> Arg(<<"Int">>, "d")])],
    [k \in {"items"} |-> ListArg(<<"Int">>, "d")],
    EmptyMap }

ArgDefs ==
  { Arg(ts, "d") : ts \in TypeStrings }
    \cup { ObjectArg("d", props) : props \in Properties }
    \cup { ArrayObjectArg("d", props) : props \in Properties }
    \cup { MapV([type |-> StrV(<<"Object">>), properties |-> StrV(<<"x">>)]),
           MapV([type |-> IntV(7)]),
           MapV([description |-> StrV(<<"d">>)]),
           StrV(<<"Int">>), NilV }

FieldArgSets ==
  { EmptyMap,
    [k \in {"a"} |-> Arg(<<"Int">>, "d")],
    [k \in {"a", "b"} |-> IF k = "a" THEN Arg(<<"Int">>, "d") ELSE NonNullArg(<<"String">>, "d")],
    [k \in {"n"} |-> ObjectArg("d", [a \in {"a"} |-> Arg(<<"Int">>, "d")])],
    [k \in {"items"} |-> ListArg(<<"Int">>, "d")] }

\* Type tags up to a nesting depth, built with the four constructors.

TagNames == {"String", "User", ""}

TagFields ==
  { EmptyMap,
    [f \in {"id"} |->
       MapV([type |-> TypeDefV(createNonNullType(createScalarType("String"))),
             description |-> StrV(W("d"))])] }

RECURSIVE TypeTags(_)
TypeTags(depth) ==
  IF depth = 0
  THEN { createScalarType(n) : n \in TagNames }
         \cup { createObjectType(n, f) : n \in TagNames, f \in TagFields }
  ELSE LET inner == TypeTags(depth - 1)
       IN  inner \cup { createListType(x) : x \in inner }
             \cup { createNonNullType(x) : x \in inner }

\* Handler results.
IdOne == [id |-> Float64V(10)]

Results ==
  { NilV, StrV(<<"x">>), Float64V(10), BoolV(TRUE),
    SliceV(<<>>),
    SliceV(<<StrV(<<"x">>), StrV(<<"y">>)>>),
    SliceV(<<MapV(IdOne)>>),
    MapV([items |-> SliceV(<<MapV(IdOne)>>)]),
    SliceV(<<StrV(<<"x">>), MapV(IdOne)>>),
    SliceV(<<MapV(IdOne), StrV(<<"x">>)>>),
    SliceV(<<SliceV(<<>>)>>),
    SliceV(<<NilV, MapV(IdOne)>>),
    SliceV(<<StructV(IdOne)>>),
    SliceV(<<StrSliceV(<<<<"x">>>>)>>),
    SliceV(<<TypedV("map[string]string", [id |-> <<"1">>])>>),
    StructV(IdOne),
    StructV([items |-> SliceV(<<MapV(IdOne)>>)]),
    MapV(EmptyMap),
    MapV(IdOne),
    MapV([a |-> StrV(<<"x">>), b |-> SliceV(<<StrV(<<"x">>)>>)]),
    MapV([a |-> MapV([b |-> SliceV(<<SliceV(<<Float64V(10)>>)>>)])]),
    MapV([a |-> SliceV(<<>>), b |-> MapV(IdOne)]),
    StrSliceV(<<<<"x">>, <<"y">>>>),
    IntSliceV(<<1, 2>>),
    TypedV("[]struct", <<IdOne>>),
    TypedV("[]map[string]interface{}", <<IdOne>>),
    TypedV("[]map[string]interface{}", <<>>),
    TypedV("[]map[string]string", <<[id |-> <<"1">>]>>),
    TypedV("[][]string", <<<<<<"x">>>>>>),
    TypedV("[][]interface{}", <<<<Float64V(10)>>>>),
    TypedV("map[string]string", [id |-> <<"1">>]),
    TypedV("map[string][]interface{}", [items |-> <<MapV(IdOne)>>]),
    TypedV("map[string][]interface{}", [items |-> <<StrV(<<"x">>)>>]) }

(***************************************************************************)
(* Calls of the helper functions.                                          *)
(***************************************************************************)
DoSerializeTypeDefinition ==
  /\ Idle
  /\ \E a \in TypeTags(MaxDepth), b \in TypeTags(MaxDepth) :
       call' = [op |-> "serializeTypeDefinition", a |-> a, b |-> b,
                outA |-> serializeTypeDefinition(a), outB |-> serializeTypeDefinition(b)]
  /\ UNCHANGED <<registry, response>>

DoIsComplexArrayData ==
  /\ Idle
  /\ \E data \in Results :
       call' = [op |-> "isComplexArrayData", data |-> data, out |-> isComplexArrayData(data)]
  /\ UNCHANGED <<registry, response>>

DoParseValue ==
  /\ Idle
  /\ \E argDef \in ArgDefs, rawValue \in RawValues :
       call' = [op |-> "parseValue", def |-> argDef, raw |-> rawValue,
                out |-> parseValue(rawValue, argDef)]
  /\ UNCHANGED <<registry, response>>

DoParseArgs ==
  /\ Idle
  /\ \E fieldArgs \in FieldArgSets, rawArgs \in RawMaps :
       call' = [op |-> "ParseArgs", args |-> fieldArgs, raw |-> rawArgs.v,
                out |-> ParseArgs(fieldArgs, rawArgs.v)]
  /\ UNCHANGED <<registry, response>>

\* The caller takes the result; the next call can start.
Return ==
  /\ ~Idle
  /\ call' = NoCall
  /\ response' = NoResponse
  /\ UNCHANGED registry

(***************************************************************************)
(* The object-schema builder (helpers.go).                                 *)
(***************************************************************************)
ObjectFieldDef(type, description, nullable, list, listOfNonNull) ==
  [Type |-> type, Description |-> description, Nullable |-> nullable, List |-> list,
   ListOfNonNull |-> listOfNonNull]

\* The ObjectTypeDefinition def with its field map read from the heap.
Load(def) ==
  [TypeName |-> def.TypeName, Description |-> def.Description,
   Fields |-> fieldMaps[def.Fields]]

NewObjectType(typeName, description) ==
  /\ fieldMaps' = Append(fieldMaps, EmptyMap)
  /\ builders' = Append(builders, [TypeName |-> typeName, Description |-> description,
                                   Fields |-> Len(fieldMaps) + 1])
  /\ UNCHANGED <<plugin, built, response, call>>

\* SetField keeping the entry a name already has.
SetField_keepFirst(b, name, fieldDef) ==
  /\ fieldMaps' = [fieldMaps EXCEPT ![builders[b].Fields] = @ @@ (name :> fieldDef)]
  /\ UNCHANGED <<plugin, builders, built, response, call>>

\* b.def.Fields[name] = fieldDef
SetField(b, name, fieldDef) ==
  /\ fieldMaps' = [fieldMaps EXCEPT ![builders[b].Fields] = (name :> fieldDef) @@ @]
  /\ UNCHANGED <<plugin, builders, built, response, call>>

AddStringField(b, name, description, nullable) ==
  SetField(b, name, ObjectFieldDef("String", description, nullable, FALSE, FALSE))

AddObjectField(b, name, description, objectType, nullable) ==
  SetField(b, name, ObjectFieldDef(objectType, description, nullable, FALSE, FALSE))

AddListField(b, name, description, itemType, nullable, listOfNonNull) ==
  SetField(b, name, ObjectFieldDef(itemType, description, nullable, TRUE, listOfNonNull))

RegisterObjectType(objectType) == (objectType.TypeName :> objectType) @@ objectTypes

\* Plugin.GetObjectType: (objectType, exists); the zero value is <<>>.
GetObjectType(typeName) ==
  IF typeName \in DOMAIN objectTypes THEN <<objectTypes[typeName], TRUE>> ELSE <<<<>>, FALSE>>

\* Build registering the schema whether or not a plugin is active.
Build_withoutPlugin(b) ==
  /\ objectTypes' = RegisterObjectType(builders[b])
  /\ built' = built \cup {builders[b]}
  /\ UNCHANGED <<currentPlugin, queries, mutations, resolvers, handlers, fieldMaps,
                 builders, response, call>>

\* ObjectTypeBuilder.Build: registers the schema with the current plugin,
\* if there is one, and returns it.
Build(b) ==
  /\ objectTypes' = IF currentPlugin THEN RegisterObjectType(builders[b]) ELSE objectTypes
  /\ built' = built \cup {builders[b]}
  /\ UNCHANGED <<currentPlugin, queries, mutations, resolvers, handlers, fieldMaps,
                 builders, response, call>>

(***************************************************************************)
(* The plugin and its registries (sdk.go).                                 *)
(***************************************************************************)
\* sdk.Init: a new plugin with empty registries becomes the current plugin.
PluginInit ==
  /\ ~currentPlugin
  /\ currentPlugin' = TRUE
  /\ queries' = EmptyMap
  /\ mutations' = EmptyMap
  /\ resolvers' = EmptyMap
  /\ objectTypes' = EmptyMap
  /\ restAPIs' = <<>>
  /\ restHandlers' = EmptyMap
  /\ functions' = ("health_check" :> "performHealthCheck")
  /\ healthChecks' = <<>>
  /\ UNCHANGED <<fieldMaps, builders, built, response, call>>

\* RegisterQuery that leaves field.Resolve as the caller set it.
RegisterQuery_keepResolve(name, field, resolver) ==
  /\ currentPlugin
  /\ queries' = (name :> field) @@ queries
  /\ resolvers' = (name :> resolver) @@ resolvers
  /\ UNCHANGED <<currentPlugin, mutations, objectTypes, handlers, fieldMaps, builders,
                 built, response, call>>

\* Plugin.RegisterQuery
RegisterQuery(name, field, resolver) ==
  /\ currentPlugin
  /\ queries' = (name :> [field EXCEPT !.Resolve = <<name, "Resolver">>]) @@ queries
  /\ resolvers' = (name :> resolver) @@ resolvers
  /\ UNCHANGED <<currentPlugin, mutations, objectTypes, handlers, fieldMaps, builders,
                 built, response, call>>

RegisterMutation(name, field, resolver) ==
  /\ currentPlugin
  /\ mutations' = (name :> [field EXCEPT !.Resolve = <<name, "Resolver">>]) @@ mutations
  /\ resolvers' = (name :> resolver) @@ resolvers
  /\ UNCHANGED <<currentPlugin, queries, objectTypes, handlers, fieldMaps, builders,
                 built, response, call>>

\* Plugin.RegisterQueries: RegisterQuery for every name of fields that has a
\* resolver in funcs.  The names are distinct map keys, so the order in
\* which the loop visits them makes no difference.
RegisterQueries(fields, funcs) ==
  LET names == DOMAIN fields \cap DOMAIN funcs
  IN  /\ currentPlugin
      /\ queries' = [name \in names |-> [fields[name] EXCEPT !.Resolve = <<name, "Resolver">>]]
                       @@ queries
      /\ resolvers' = [name \in names |-> funcs[name]] @@ resolvers
      /\ UNCHANGED <<currentPlugin, mutations, objectTypes, handlers, fieldMaps, builders,
                     built, response, call>>

\* Plugin.RegisterMutations
RegisterMutations(fields, funcs) ==
  LET names == DOMAIN fields \cap DOMAIN funcs
  IN  /\ currentPlugin
      /\ mutations' = [name \in names |->
                         [fields[name] EXCEPT !.Resolve = <<name, "Resolver">>]]
                         @@ mutations
      /\ resolvers' = [name \in names |-> funcs[name]] @@ resolvers
      /\ UNCHANGED <<currentPlugin, queries, objectTypes, handlers, fieldMaps, builders,
                     built, response, call>>

\* SchemaRegister recreating the queries struct from the object types only.
SchemaRegisterResponse_objectTypesOnly ==
  LET queriesMap == [name \in DOMAIN queries |-> MapV(serializeGraphQLField(queries[name]))]
      mutationsMap ==
        [name \in DOMAIN mutations |-> MapV(serializeGraphQLField(mutations[name]))]
      objectTypesMap ==
        [name \in DOMAIN objectTypes |->
           MapV(serializeObjectTypeDefinition(Load(objectTypes[name])))]
      objectTypesField ==
        [type |-> StrV(<<"String">>),
         description |-> StrV(<<"Object type definitions for nested objects">>),
         objectTypes |-> MapV(objectTypesMap)]
      withObjectTypes == ("__objectTypes" :> MapV(objectTypesField))
      failed(message) == [op |-> "SchemaRegister", err |-> message]
  IN  IF ~NewStruct(queriesMap).ok THEN failed("failed to create queries struct")
      ELSE IF ~NewStruct(mutationsMap).ok THEN failed("failed to create mutations struct")
      ELSE IF DOMAIN objectTypesMap # {}
      THEN IF ~NewStruct(withObjectTypes).ok
           THEN failed("failed to recreate queries struct with object types")
           ELSE [op |-> "SchemaRegister", err |-> "",
                 Queries |-> NewStruct(withObjectTypes).val.v,
                 Mutations |-> NewStruct(mutationsMap).val.v]
      ELSE [op |-> "SchemaRegister", err |-> "",
            Queries |-> NewStruct(queriesMap).val.v,
            Mutations |-> NewStruct(mutationsMap).val.v]

\* The response of SchemaRegister in the current state; the two structs
\* are given as the maps AsMap reads back.
SchemaRegisterResponse ==
  LET queriesMap == [name \in DOMAIN queries |-> MapV(serializeGraphQLField(queries[name]))]
      mutationsMap ==
        [name \in DOMAIN mutations |-> MapV(serializeGraphQLField(mutations[name]))]
      objectTypesMap ==
        [name \in DOMAIN objectTypes |->
           MapV(serializeObjectTypeDefinition(Load(objectTypes[name])))]
      objectTypesField ==
        [type |-> StrV(<<"String">>),
         description |-> StrV(<<"Object type definitions for nested objects">>),
         objectTypes |-> MapV(objectTypesMap)]
      withObjectTypes == ("__objectTypes" :> MapV(objectTypesField)) @@ queriesMap
      failed(message) == [op |-> "SchemaRegister", err |-> message]
  IN  IF ~NewStruct(queriesMap).ok THEN failed("failed to create queries struct")
      ELSE IF ~NewStruct(mutationsMap).ok THEN failed("failed to create mutations struct")
      ELSE IF DOMAIN objectTypesMap # {}
      THEN IF ~NewStruct(withObjectTypes).ok
           THEN failed("failed to recreate queries struct with object types")
           ELSE [op |-> "SchemaRegister", err |-> "",
                 Queries |-> NewStruct(withObjectTypes).val.v,
                 Mutations |-> NewStruct(mutationsMap).val.v]
      ELSE [op |-> "SchemaRegister", err |-> "",
            Queries |-> NewStruct(queriesMap).val.v,
            Mutations |-> NewStruct(mutationsMap).val.v]

SchemaRegister ==
  /\ currentPlugin
  /\ Idle
  /\ response' = SchemaRegisterResponse
  /\ UNCHANGED <<registry, call>>

(***************************************************************************)
(* Argument parsing for a resolver (helpers.go).                           *)
(***************************************************************************)
ParseGraphQLArgs(field, rawArgs) == ParseArgs(field.Args, rawArgs)

ParseArgsForResolver(resolverName, rawArgs) ==
  IF ~currentPlugin THEN rawArgs
  ELSE IF resolverName \in DOMAIN queries
  THEN ParseGraphQLArgs(queries[resolverName], rawArgs)
  ELSE IF resolverName \in DOMAIN mutations
  THEN ParseGraphQLArgs(mutations[resolverName], rawArgs)
  ELSE rawArgs

(***************************************************************************)
(* Function names and handler keys (sdk.go).  A name is spelled as its     *)
(* parts with every "_" and "/" a part of its own, <<"rest", "_", "get",   *)
(* "_", "hello">>; Text gives the Go string, which is what the registries  *)
(* are keyed by.                                                           *)
(***************************************************************************)
RECURSIVE Text(_)
Text(s) == IF Len(s) = 0 THEN "" ELSE s[1] \o Text(Tail(s))

\* strings.HasPrefix
HasPrefix(s, prefix) == Len(s) >= Len(prefix) /\ SubSeq(s, 1, Len(prefix)) = prefix

\* The position of the first sep in s, 0 when there is none.
IndexOf(s, sep) ==
  IF \E i \in 1..Len(s) : s[i] = sep
  THEN CHOOSE i \in 1..Len(s) : s[i] = sep /\ \A j \in 1..(i - 1) : s[j] # sep
  ELSE 0

\* strings.SplitN(s, sep, n) for n > 0
RECURSIVE SplitN(_, _, _)
SplitN(s, sep, n) ==
  IF n = 1 \/ IndexOf(s, sep) = 0 THEN <<s>>
  ELSE <<SubSeq(s, 1, IndexOf(s, sep) - 1)>>
         \o SplitN(SubSeq(s, IndexOf(s, sep) + 1, Len(s)), sep, n - 1)

\* strings.Split(s, sep)
RECURSIVE Split(_, _)
Split(s, sep) ==
  IF IndexOf(s, sep) = 0 THEN <<s>>
  ELSE <<SubSeq(s, 1, IndexOf(s, sep) - 1)>>
         \o Split(SubSeq(s, IndexOf(s, sep) + 1, Len(s)), sep)

\* strings.ToUpper, on the words that have lower-case letters.
UpperCase == [get |-> "GET", Get |-> "GET", post |-> "POST", rest |-> "REST"]

ToUpper(s) == [i \in 1..Len(s) |-> IF s[i] \in DOMAIN UpperCase THEN UpperCase[s[i]] ELSE s[i]]

(***************************************************************************)
(* Registration of REST endpoints, functions and health checks (sdk.go).   *)
(***************************************************************************)
RESTEndpoint(method, path, description) ==
  [Method |-> method, Path |-> path, Description |-> description, Schema |-> EmptyMap,
   Handler |-> ""]

RegisterRESTAPI(endpoint, handler) ==
  /\ currentPlugin
  /\ restAPIs' = Append(restAPIs,
                        [endpoint EXCEPT !.Handler = endpoint.Method \o "_" \o endpoint.Path])
  /\ restHandlers' = ((endpoint.Method \o "_" \o endpoint.Path) :> handler) @@ restHandlers
  /\ UNCHANGED <<currentPlugin, queries, mutations, resolvers, objectTypes, functions,
                 healthChecks, fieldMaps, builders, built, response, call>>

RegisterFunction(name, function) ==
  /\ currentPlugin
  /\ functions' = (name :> function) @@ functions
  /\ UNCHANGED <<currentPlugin, queries, mutations, resolvers, objectTypes, restAPIs,
                 restHandlers, healthChecks, fieldMaps, builders, built, response, call>>

RegisterHealthCheck(healthCheck) ==
  /\ currentPlugin
  /\ healthChecks' = Append(healthChecks, healthCheck)
  /\ UNCHANGED <<currentPlugin, queries, mutations, resolvers, objectTypes, restAPIs,
                 restHandlers, functions, fieldMaps, builders, built, response, call>>

\* Plugin.RegisterHealthChecks: RegisterHealthCheck for each, in order.
RegisterHealthChecks(checks) ==
  /\ currentPlugin
  /\ healthChecks' = healthChecks \o checks
  /\ UNCHANGED <<currentPlugin, queries, mutations, resolvers, objectTypes, restAPIs,
                 restHandlers, functions, fieldMaps, builders, built, response, call>>

(***************************************************************************)
(* Errors (sdk.go).  A handler returns (result, err); NoError is nil.      *)
(***************************************************************************)
NoError == [type |-> "nil"]

ErrorString(message) == [type |-> "errorString", Message |-> message]

CodedError(code, message, details) ==
  [type |-> "CodedError", Code |-> code, Message |-> message, Details |-> details]

\* err.Error()
ErrorText(err) ==
  IF err.type = "CodedError"
  THEN IF err.Details # ""
       THEN "HTTP " \o Text(FormatInt(err.Code)) \o ": " \o err.Message
              \o " (" \o err.Details \o ")"
       ELSE "HTTP " \o Text(FormatInt(err.Code)) \o ": " \o err.Message
  ELSE err.Message

(***************************************************************************)
(* The health report (sdk.go performHealthCheck).                          *)
(***************************************************************************)
\* Plugin.name and Plugin.version, as given to sdk.Init.
pluginName == "hello"

pluginVersion == "v1"

\* performHealthCheck that stops running the checks at the first error.
performHealthCheck_stopAtError(all) ==
  LET outcomes ==
        IF \E i \in 1..Len(all) : all[i].err # NoError
        THEN SubSeq(all, 1, CHOOSE i \in 1..Len(all) :
                              /\ all[i].err # NoError
                              /\ \A j \in 1..(i - 1) : all[j].err = NoError)
        ELSE all
  IN
  LET checkName(i) == "custom_check_" \o Text(FormatInt(i - 1))
      customHealthResults ==
        [key \in { checkName(i) : i \in 1..Len(outcomes) } |->
           LET i == CHOOSE j \in 1..Len(outcomes) : checkName(j) = key
           IN  IF outcomes[i].err # NoError
               THEN MapV([status |-> StrV(<<"error">>),
                          error |-> StrV(W(ErrorText(outcomes[i].err)))])
               ELSE outcomes[i].result]
      degraded(i) ==
        \/ outcomes[i].err # NoError
        \/ /\ "status" \in DOMAIN outcomes[i].result.v
           /\ outcomes[i].result.v["status"].t = "string"
           /\ outcomes[i].result.v["status"].v # <<"healthy">>
      overallStatus ==
        IF \E i \in 1..Len(outcomes) : degraded(i) THEN <<"degraded">> ELSE <<"healthy">>
      healthInfo ==
        [status |-> StrV(overallStatus),
         plugin |-> StrV(W(pluginName)),
         version |-> StrV(W(pluginVersion)),
         timestamp |-> Int64V(1),
         uptime |-> Int64V(0),
         runtime |-> MapV([goroutines |-> IntV(1), go_version |-> StrV(<<"go">>)]),
         statistics |->
           MapV([queries_registered |-> IntV(Cardinality(DOMAIN queries)),
                 mutations_registered |-> IntV(Cardinality(DOMAIN mutations)),
                 rest_apis_registered |-> IntV(Len(restAPIs)),
                 functions_registered |-> IntV(Cardinality(DOMAIN functions)),
                 object_types_defined |-> IntV(Cardinality(DOMAIN objectTypes)),
                 health_checks_registered |-> IntV(Len(healthChecks))]),
         capabilities |->
           MapV([graphql_queries |-> BoolV(DOMAIN queries # {}),
                 graphql_mutations |-> BoolV(DOMAIN mutations # {}),
                 rest_endpoints |-> BoolV(Len(restAPIs) > 0),
                 custom_functions |-> BoolV(DOMAIN functions # {}),
                 health_checks |-> BoolV(Len(healthChecks) > 0)]),
         environment |-> MapV([hostname |-> StrV(<<"host">>), os |-> StrV(<<"linux">>)])]
  IN  MapV(IF Len(healthChecks) > 0
           THEN ("custom_health_checks" :> MapV(customHealthResults)) @@ healthInfo
           ELSE healthInfo)

\* outcomes[i] is what the i-th custom health check returns: (report, err).
performHealthCheck(outcomes) ==
  LET checkName(i) == "custom_check_" \o Text(FormatInt(i - 1))
      customHealthResults ==
        [key \in { checkName(i) : i \in 1..Len(outcomes) } |->
           LET i == CHOOSE j \in 1..Len(outcomes) : checkName(j) = key
           IN  IF outcomes[i].err # NoError
               THEN MapV([status |-> StrV(<<"error">>),
                          error |-> StrV(W(ErrorText(outcomes[i].err)))])
               ELSE outcomes[i].result]
      degraded(i) ==
        \/ outcomes[i].err # NoError
        \/ /\ "status" \in DOMAIN outcomes[i].result.v
           /\ outcomes[i].result.v["status"].t = "string"
           /\ outcomes[i].result.v["status"].v # <<"healthy">>
      overallStatus ==
        IF \E i \in 1..Len(outcomes) : degraded(i) THEN <<"degraded">> ELSE <<"healthy">>
      healthInfo ==
        [status |-> StrV(overallStatus),
         plugin |-> StrV(W(pluginName)),
         version |-> StrV(W(pluginVersion)),
         timestamp |-> Int64V(1),
         uptime |-> Int64V(0),
         runtime |-> MapV([goroutines |-> IntV(1), go_version |-> StrV(<<"go">>)]),
         statistics |->
           MapV([queries_registered |-> IntV(Cardinality(DOMAIN queries)),
                 mutations_registered |-> IntV(Cardinality(DOMAIN mutations)),
                 rest_apis_registered |-> IntV(Len(restAPIs)),
                 functions_registered |-> IntV(Cardinality(DOMAIN functions)),
                 object_types_defined |-> IntV(Cardinality(DOMAIN objectTypes)),
                 health_checks_registered |-> IntV(Len(healthChecks))]),
         capabilities |->
           MapV([graphql_queries |-> BoolV(DOMAIN queries # {}),
                 graphql_mutations |-> BoolV(DOMAIN mutations # {}),
                 rest_endpoints |-> BoolV(Len(restAPIs) > 0),
                 custom_functions |-> BoolV(DOMAIN functions # {}),
                 health_checks |-> BoolV(Len(healthChecks) > 0)]),
         environment |-> MapV([hostname |-> StrV(<<"host">>), os |-> StrV(<<"linux">>)])]
  IN  MapV(IF Len(healthChecks) > 0
           THEN ("custom_health_checks" :> MapV(customHealthResults)) @@ healthInfo
           ELSE healthInfo)

(***************************************************************************)
(* encoding/json, as far as Execute uses it: the text json.Marshal writes  *)
(* is given as the value json.Unmarshal reads back from it.  Struct fields *)
(* are exported under their names.                                         *)
(***************************************************************************)
ChanV == [t |-> "chan", v |-> 0]

RECURSIVE Marshalable(_)
Marshalable(value) ==
  CASE value.t \in DOMAIN SliceElem ->
         \A i \in 1..Len(value.v) : Marshalable(Index(value, i))
    [] value.t \in DOMAIN MapElem ->
         \A key \in DOMAIN value.v : Marshalable(MapIndex(value, key))
    [] value.t = "struct" -> \A f \in DOMAIN value.v : Marshalable(value.v[f])
    [] value.t = "chan" -> FALSE
    [] OTHER -> TRUE

RECURSIVE Marshal(_)
Marshal(value) ==
  CASE value.t \in DOMAIN SliceElem ->
         SliceV([i \in 1..Len(value.v) |-> Marshal(Index(value, i))])
    [] value.t \in DOMAIN MapElem ->
         MapV([key \in DOMAIN value.v |-> Marshal(MapIndex(value, key))])
    [] value.t = "struct" -> MapV([f \in DOMAIN value.v |-> Marshal(value.v[f])])
    [] value.t \in {"int", "int64"} -> Float64V(value.v * 10)
    [] value.t = "float32" -> Float64V(value.v)
    [] OTHER -> value

\* The anypb.Any of a structpb string value holding the JSON text.
serializeComplexData(data, functionName, functionType) ==
  LET resultMap ==
        MapV([data |-> data,
              function_name |-> StrV(functionName),
              function_type |-> StrV(W(functionType)),
              serialization |-> StrV(<<"json_bytes">>)])
  IN  IF ~Marshalable(resultMap) THEN [ok |-> FALSE, val |-> <<>>]
      ELSE [ok |-> TRUE,
            val |-> <<[TypeUrl |-> "google.protobuf.Value",
                       Value |-> [t |-> "json", v |-> Marshal(resultMap)]]>>]

(***************************************************************************)
(* Execute (sdk.go).  A request is [FunctionName, FunctionType, Args,      *)
(* Context]; Args and Context point to a structpb.Struct, <<>> for nil,    *)
(* given as the map AsMap reads from it.                                   *)
(***************************************************************************)
\* ExecuteArgs that keeps a key the request args already hold.
ExecuteArgs_argsFirst(req) ==
  LET args == IF Len(req.Args) = 0 THEN EmptyMap ELSE req.Args[1]
      contextData == IF Len(req.Context) = 0 THEN EmptyMap ELSE req.Context[1]
      contextKeys == { "context_" \o key : key \in DOMAIN contextData }
  IN  [k \in DOMAIN args \cup contextKeys |->
         IF k \in DOMAIN args THEN args[k]
         ELSE contextData[CHOOSE key \in DOMAIN contextData : k = "context_" \o key]]

\* args after the context data is merged into it
ExecuteArgs(req) ==
  LET args == IF Len(req.Args) = 0 THEN EmptyMap ELSE req.Args[1]
      contextData == IF Len(req.Context) = 0 THEN EmptyMap ELSE req.Context[1]
      contextKeys == { "context_" \o key : key \in DOMAIN contextData }
  IN  [k \in DOMAIN args \cup contextKeys |->
         IF k \in contextKeys
         THEN contextData[CHOOSE key \in DOMAIN contextData : k = "context_" \o key]
         ELSE args[k]]

\* ctx after context.WithValue for every entry of the context data: the
\* values ctx.Value finds under string keys.
ExecuteContext(req) == IF Len(req.Context) = 0 THEN EmptyMap ELSE req.Context[1]

\* oldFormatKey with the method as the name spells it.
oldFormatKey_asSpelled(parts) ==
  Text(parts[2]) \o "_" \o Text(<<"/">> \o JoinWith(Split(parts[3], "_"), <<"/">>))

\* The handler key rebuilt from a name of the form rest_<method>_<path>,
\* given its three parts.
oldFormatKey(parts) ==
  Text(ToUpper(parts[2])) \o "_" \o Text(<<"/">> \o JoinWith(Split(parts[3], "_"), <<"/">>))

\* Dispatch that looks the name up without regard to the function type.
Dispatch_anyType(req) ==
  LET functionName == Text(req.FunctionName)
      hit(h) == [found |-> TRUE, handler |-> h, Message |-> ""]
      miss(message) == [found |-> FALSE, handler |-> "", Message |-> message]
  IN  IF functionName \in DOMAIN resolvers THEN hit(resolvers[functionName])
      ELSE IF functionName \in DOMAIN functions THEN hit(functions[functionName])
      ELSE miss("Unknown function: " \o functionName)

\* The switch on req.FunctionType: the handler found, or the response of a miss.
Dispatch(req) ==
  LET functionName == Text(req.FunctionName)
      parts == SplitN(req.FunctionName, "_", 3)
      hit(h) == [found |-> TRUE, handler |-> h, Message |-> ""]
      miss(message) == [found |-> FALSE, handler |-> "", Message |-> message]
  IN  CASE req.FunctionType \in {"graphql_query", "graphql_mutation"} ->
             IF functionName \in DOMAIN resolvers THEN hit(resolvers[functionName])
             ELSE miss("Unknown GraphQL resolver: " \o functionName)
        [] req.FunctionType = "rest_api" ->
             IF functionName \in DOMAIN restHandlers THEN hit(restHandlers[functionName])
             ELSE IF /\ HasPrefix(req.FunctionName, <<"rest", "_">>)
                     /\ Len(parts) >= 3
                     /\ oldFormatKey(parts) \in DOMAIN restHandlers
             THEN hit(restHandlers[oldFormatKey(parts)])
             ELSE miss("Unknown REST handler: " \o functionName)
        [] req.FunctionType \in {"function", "system"} ->
             IF functionName \in DOMAIN functions THEN hit(functions[functionName])
             ELSE miss("Unknown function: " \o functionName)
        [] OTHER -> miss("Unsupported function type: " \o req.FunctionType)

ExecuteResponse(req, success, message, result) ==
  [op |-> "Execute", req |-> req, Success |-> success, Message |-> message,
   Result |-> result, err |-> ""]

\* Execute from the point where the handler has returned (result, err).
ExecuteResult(req, result, err) ==
  LET resultMap ==
        [data |-> result,
         function_name |-> StrV(req.FunctionName),
         function_type |-> StrV(W(req.FunctionType))]
      anyResult == serializeComplexData(result, req.FunctionName, req.FunctionType)
  IN  IF err # NoError
      THEN ExecuteResponse(req, FALSE, "Execution failed: " \o ErrorText(err), <<>>)
      ELSE IF isComplexArrayData(result)
      THEN IF ~anyResult.ok
           THEN ExecuteResponse(req, FALSE, "Failed to serialize complex data", <<>>)
           ELSE ExecuteResponse(req, TRUE, "Execution completed successfully (complex data)",
                                anyResult.val)
      ELSE IF ~NewStruct(resultMap).ok
      THEN ExecuteResponse(req, FALSE, "Failed to create result struct", <<>>)
      ELSE ExecuteResponse(req, TRUE, "Execution completed successfully",
                           <<[TypeUrl |-> "google.protobuf.Struct",
                              Value |-> NewStruct(resultMap).val]>>)

\* What a handler can return.  The built-in health check runs the custom
\* checks; any other handler is the plugin author's code.
Returns(handler, handlerReturns, checkReturns) ==
  IF handler = "performHealthCheck"
  THEN { [result |-> performHealthCheck(outcomes), err |-> NoError] :
           outcomes \in [1..Len(healthChecks) -> checkReturns] }
  ELSE handlerReturns

\* Execute that, having rebuilt the handler key of a new-format name, also
\* registers the handler under the name it was asked for.
Execute_cachingKey(req, handlerReturns, checkReturns) ==
  /\ currentPlugin
  /\ IF ~Dispatch(req).found
     THEN /\ response' = ExecuteResponse(req, FALSE, Dispatch(req).Message, <<>>)
          /\ call' = call
          /\ restHandlers' = restHandlers
     ELSE \E out \in Returns(Dispatch(req).handler, handlerReturns, checkReturns) :
            /\ call' = [op |-> "handler", handler |-> Dispatch(req).handler,
                        args |-> ExecuteArgs(req), ctx |-> ExecuteContext(req),
                        result |-> out.result, err |-> out.err]
            /\ response' = ExecuteResult(req, out.result, out.err)
            /\ restHandlers' =
                 IF req.FunctionType = "rest_api"
                 THEN (Text(req.FunctionName) :> Dispatch(req).handler) @@ restHandlers
                 ELSE restHandlers
  /\ UNCHANGED <<currentPlugin, queries, mutations, resolvers, objectTypes, restAPIs,
                 functions, healthChecks, fieldMaps, builders, built>>

\* pluginImpl.Execute
Execute(req, handlerReturns, checkReturns) ==
  /\ currentPlugin
  /\ IF ~Dispatch(req).found
     THEN /\ response' = ExecuteResponse(req, FALSE, Dispatch(req).Message, <<>>)
          /\ call' = call
     ELSE \E out \in Returns(Dispatch(req).handler, handlerReturns, checkReturns) :
            /\ call' = [op |-> "handler", handler |-> Dispatch(req).handler,
                        args |-> ExecuteArgs(req), ctx |-> ExecuteContext(req),
                        result |-> out.result, err |-> out.err]
            /\ response' = ExecuteResult(req, out.result, out.err)
  /\ UNCHANGED registry

\* pluginImpl.RESTApiRegister: the registered endpoints, each with its
\* schema as the struct structpb.NewStruct makes of it.
RESTApiRegisterResponse ==
  IF \E i \in 1..Len(restAPIs) : ~NewStruct(restAPIs[i].Schema).ok
  THEN [op |-> "RESTApiRegister", err |-> "failed to create schema struct"]
  ELSE [op |-> "RESTApiRegister", err |-> "",
        Apis |-> [i \in 1..Len(restAPIs) |->
                    [Method |-> restAPIs[i].Method,
                     Path |-> restAPIs[i].Path,
                     Description |-> restAPIs[i].Description,
                     Schema |-> NewStruct(restAPIs[i].Schema).val.v]]]

RESTApiRegister ==
  /\ currentPlugin
  /\ response' = RESTApiRegisterResponse
  /\ UNCHANGED <<registry, call>>

\* pluginImpl.GetVersion
GetVersion ==
  /\ currentPlugin
  /\ response' = [op |-> "GetVersion", err |-> "", Version |-> pluginVersion]
  /\ UNCHANGED <<registry, call>>

\* pluginImpl.Debug: the Any of a struct naming the plugin and the stage.
Debug(stage) ==
  LET result == [plugin |-> StrV(W(pluginName)),
                 version |-> StrV(W(pluginVersion)),
                 stage |-> StrV(W(stage)),
                 message |-> StrV(<<"Debug method called successfully">>)]
  IN  /\ currentPlugin
      /\ response' =
           IF ~NewStruct(result).ok
           THEN [op |-> "Debug", err |-> "failed to create result struct"]
           ELSE [op |-> "Debug", err |-> "",
                 Result |-> [TypeUrl |-> "google.protobuf.Struct",
                             Value |-> NewStruct(result).val]]
      /\ UNCHANGED <<registry, call>>

\* helpers.go GetContextString and GetContextFromContext; defaultValue is
\* the variadic parameter.
GetContextString(args, key, defaultValue) ==
  IF ("context_" \o key) \in DOMAIN args /\ args["context_" \o key].t = "string"
  THEN args["context_" \o key].v
  ELSE IF Len(defaultValue) > 0 THEN defaultValue[1] ELSE <<>>

GetContextFromContext(ctx, key, defaultValue) ==
  IF key \in DOMAIN ctx /\ ctx[key].t # "nil" /\ ctx[key].t = "string"
  THEN ctx[key].v
  ELSE IF Len(defaultValue) > 0 THEN defaultValue[1] ELSE <<>>

(***************************************************************************)
(* REST argument helpers (helpers.go).  A Go map or slice that can be nil  *)
(* is given as a pointer is: <<>> for nil, <<m>> for the map m.            *)
(***************************************************************************)
GetObjectArg(args, name) ==
  IF name \in DOMAIN args /\ args[name].t # "nil" /\ args[name].t = "map"
  THEN <<args[name].v>>
  ELSE <<EmptyMap>>

GetArrayArg(args, name) ==
  IF name \in DOMAIN args /\ args[name].t # "nil" /\ args[name].t = "slice"
  THEN <<args[name].v>>
  ELSE << <<>> >>

GetBodyParamObject(args, paramName) ==
  IF Len(GetObjectArg(args, "body_" \o paramName)) > 0
  THEN GetObjectArg(args, "body_" \o paramName)
  ELSE GetObjectArg(args, paramName)

GetBodyParamArray(args, paramName) ==
  IF Len(GetArrayArg(args, "body_" \o paramName)) > 0
  THEN GetArrayArg(args, "body_" \o paramName)
  ELSE GetArrayArg(args, paramName)

Init ==
  /\ currentPlugin = FALSE
  /\ queries = EmptyMap
  /\ mutations = EmptyMap
  /\ resolvers = EmptyMap
  /\ objectTypes = EmptyMap
  /\ restAPIs = <<>>
  /\ restHandlers = EmptyMap
  /\ functions = EmptyMap
  /\ healthChecks = <<>>
  /\ fieldMaps = <<>>
  /\ builders = <<>>
  /\ built = {}
  /\ response = NoResponse
  /\ call = NoCall

(***************************************************************************)
(* The steps of a plugin program that declares a schema: it builds object  *)
(* schemas, registers queries and mutations, and the host asks for the     *)
(* schema.  One call is in progress at a time.                             *)
(***************************************************************************)
TypeNames == {"User"}

\* The field names the program gives to single-valued and to list fields.
FieldNames == {"id"}

ListFieldNames == {"tags"}

ItemTypes == {"Int", "Profile"}

ScalarNames == {"String", "DateTime"}

QueryNames == {"listUsers"}

MutationNames == {"createUser"}

DoNewObjectType ==
  /\ Idle
  /\ Len(builders) < MaxBuilders
  /\ \E typeName \in TypeNames : NewObjectType(typeName, "d")

DoAddStringField ==
  /\ Idle
  /\ \E b \in 1..Len(builders), name \in FieldNames, nullable \in BOOLEAN :
       AddStringField(b, name, "d", nullable)

DoAddObjectField ==
  /\ Idle
  /\ \E b \in 1..Len(builders), name \in FieldNames, nullable \in BOOLEAN :
       AddObjectField(b, name, "d", "Profile", nullable)

DoAddListField ==
  /\ Idle
  /\ \E b \in 1..Len(builders), name \in ListFieldNames, itemType \in ItemTypes,
        nullable \in BOOLEAN, listOfNonNull \in BOOLEAN :
       AddListField(b, name, "d", itemType, nullable, listOfNonNull)

DoBuild ==
  /\ Idle
  /\ \E b \in 1..Len(builders) : Build(b)

\* The fields a schema program registers, from the schemas it has built.
SchemaFields ==
  { NonNullListField(T, "d") : T \in ScalarNames }
    \cup { ListOfObjectsField("d", Load(S)) : S \in built }

DoRegisterQuery ==
  /\ Idle
  /\ \E name \in QueryNames, field \in SchemaFields : RegisterQuery(name, field, "r1")

DoRegisterMutation ==
  /\ Idle
  /\ \E name \in MutationNames : RegisterMutation(name, Field("Boolean", "d"), "r2")

Next ==
  \/ PluginInit
  \/ DoNewObjectType
  \/ DoAddStringField
  \/ DoAddObjectField
  \/ DoAddListField
  \/ DoBuild
  \/ DoRegisterQuery
  \/ DoRegisterMutation
  \/ SchemaRegister
  \/ Return

Spec == Init /\ [][Next]_vars

(***************************************************************************)
(* The steps of a plugin program whose resolvers parse their arguments.    *)
(***************************************************************************)
ResolverNames == {"getUser", "createUser", "missing"}

ArgFields == { FieldWithArgs("String", "d", args) : args \in FieldArgSets }

DoRegisterArgQuery ==
  /\ Idle
  /\ \E field \in ArgFields : RegisterQuery("getUser", field, "r1")

DoRegisterArgMutation ==
  /\ Idle
  /\ \E name \in {"getUser", "createUser"}, field \in ArgFields :
       RegisterMutation(name, field, "r2")

DoParseArgsForResolver ==
  /\ Idle
  /\ \E resolverName \in ResolverNames, rawArgs \in RawMaps :
       call' = [op |-> "ParseArgsForResolver", name |-> resolverName, raw |-> rawArgs.v,
                out |-> ParseArgsForResolver(resolverName, rawArgs.v)]
  /\ UNCHANGED <<registry, response>>

NextArgs ==
  \/ PluginInit
  \/ DoRegisterArgQuery
  \/ DoRegisterArgMutation
  \/ DoParseArgs
  \/ DoParseArgsForResolver
  \/ Return

SpecArgs == Init /\ [][NextArgs]_vars

NextPure ==
  \/ DoParseValue
  \/ DoParseArgs
  \/ DoSerializeTypeDefinition
  \/ DoIsComplexArrayData
  \/ Return

SpecPure == Init /\ [][NextPure]_vars

(***************************************************************************)
(* The steps of a plugin that serves requests: it registers resolvers,     *)
(* REST endpoints and functions, and the host sends Execute requests.      *)
(***************************************************************************)
\* The REST endpoints the program registers, each with its handler.
ExecRoutes ==
  { <<RESTEndpoint("GET", "/hello", "d"), "h1">>,
    <<RESTEndpoint("GET", "/hello", "d"), "h2">>,
    <<RESTEndpoint("GET", "/users/:id", "d"), "h3">>,
    <<RESTEndpoint("POST", "/user_profile", "d"), "h4">> }

\* The function names of the requests, as spelled.
ExecNames ==
  { <<"getUser">>, <<"missing">>, <<"sync">>, <<"health", "_", "check">>,
    <<"GET", "_", "/", "hello">>, <<"GET", "_", "/", "users", "/", ":id">>,
    <<"rest", "_", "get", "_", "hello">>, <<"rest", "_", "Get", "_", "users", "_", ":id">>,
    <<"rest", "_", "get", "_", "users", "_", ":id">>,
    <<"rest", "_", "post", "_", "user", "_", "profile">>,
    <<"rest", "_", "get">>, <<"get", "_", "hello">> }

ExecTypes ==
  {"graphql_query", "graphql_mutation", "rest_api", "function", "system", "subscription"}

ExecArgs ==
  { <<>>, <<[id |-> Float64V(10)]>>,
    <<[context_user_id |-> StrV(<<"args">>), id |-> Float64V(10)]>> }

ExecContexts ==
  { <<>>, <<EmptyMap>>, <<[user_id |-> StrV(<<"u1">>)]>>,
    <<[user_id |-> StrV(<<"u1">>), tenant_id |-> Float64V(10), project_id |-> NilV]>> }

Request(functionName, functionType, args, context) ==
  [FunctionName |-> functionName, FunctionType |-> functionType, Args |-> args,
   Context |-> context]

Requests ==
  { Request(n, t, <<>>, <<>>) : n \in ExecNames, t \in ExecTypes }
    \cup { Request(n, t, a, c) :
             n \in { <<"getUser">>, <<"rest", "_", "get", "_", "hello">> },
             t \in {"graphql_query", "rest_api"}, a \in ExecArgs, c \in ExecContexts }

\* What the handlers of the program return.
ExecResults ==
  { NilV, StrV(<<"x">>), Float64V(10), IntV(7),
    SliceV(<<>>),
    SliceV(<<StrV(<<"x">>), StrV(<<"y">>)>>),
    SliceV(<<MapV(IdOne)>>),
    MapV(IdOne),
    MapV([items |-> SliceV(<<MapV(IdOne)>>)]),
    MapV([status |-> StrV(<<"running">>), features |-> StrSliceV(<<<<"x">>, <<"y">>>>)]),
    StrSliceV(<<<<"x">>, <<"y">>>>),
    SliceV(<<StrSliceV(<<<<"x">>>>)>>),
    StructV(IdOne),
    SliceV(<<StructV(IdOne)>>),
    TypedV("[]map[string]interface{}", <<IdOne>>),
    TypedV("map[string]string", [id |-> <<"1">>]),
    SliceV(<<MapV([c |-> ChanV])>>) }

ExecErrors ==
  { ErrorString("boom"), CodedError(404, "not found", ""), CodedError(400, "bad", "id") }

HandlerReturns ==
  { [result |-> r, err |-> NoError] : r \in ExecResults }
    \cup { [result |-> NilV, err |-> e] : e \in ExecErrors }
    \cup { [result |-> MapV(IdOne), err |-> ErrorString("boom")] }

CheckReturns ==
  { [result |-> MapV([status |-> StrV(<<"healthy">>)]), err |-> NoError],
    [result |-> MapV([status |-> StrV(<<"slow">>)]), err |-> NoError],
    [result |-> MapV(EmptyMap), err |-> ErrorString("down")] }

DoRegisterResolver ==
  /\ Idle
  /\ \/ RegisterQuery("getUser", Field("String", "d"), "r1")
     \/ RegisterMutation("getUser", Field("String", "d"), "r2")

DoRegisterRESTAPI ==
  /\ Idle
  /\ Len(restAPIs) < MaxRoutes
  /\ \E route \in ExecRoutes : RegisterRESTAPI(route[1], route[2])

DoRegisterFunction ==
  /\ Idle
  /\ RegisterFunction("sync", "f1")

DoExecute ==
  /\ Idle
  /\ \E req \in Requests : Execute(req, HandlerReturns, CheckReturns)

NextExec ==
  \/ PluginInit
  \/ DoRegisterResolver
  \/ DoRegisterRESTAPI
  \/ DoRegisterFunction
  \/ DoExecute
  \/ Return

SpecExec == Init /\ [][NextExec]_vars

(***************************************************************************)
(* The steps of a program that declares several object types, each once,   *)
(* whose fields refer to one another, and of the host asking for the       *)
(* schema.                                                                 *)
(***************************************************************************)
SchemaTypeNames == {"User", "Profile"}

Descriptions == {"first", "second"}

DoDeclareObjectType ==
  /\ Idle
  /\ \E typeName \in SchemaTypeNames :
       /\ \A b \in 1..Len(builders) : builders[b].TypeName # typeName
       /\ NewObjectType(typeName, "d")

DoDescribeField ==
  /\ Idle
  /\ \E b \in 1..Len(builders), description \in Descriptions :
       AddStringField(b, "id", description, FALSE)

DoReferTo ==
  /\ Idle
  /\ \E b \in 1..Len(builders), objectType \in SchemaTypeNames :
       AddObjectField(b, "ref", "d", objectType, TRUE)

DoListOf ==
  /\ Idle
  /\ \E b \in 1..Len(builders) : AddListField(b, "ref", "d", "User", FALSE, TRUE)

DoRegisterSchemaQuery ==
  /\ Idle
  /\ \/ \E field \in {Field("String", "d")}
                       \cup { ListOfObjectsField("d", Load(S)) : S \in built } :
            RegisterQuery("listUsers", field, "r1")
     \/ RegisterQuery("__objectTypes", Field("String", "d"), "r2")

NextSchemas ==
  \/ PluginInit
  \/ DoDeclareObjectType
  \/ DoDescribeField
  \/ DoReferTo
  \/ DoListOf
  \/ DoBuild
  \/ DoRegisterSchemaQuery
  \/ SchemaRegister
  \/ Return

SpecSchemas == Init /\ [][NextSchemas]_vars

(***************************************************************************)
(* The steps of a plugin that registers queries and mutations, one at a    *)
(* time and several at once, under names they may share, and of the host   *)
(* executing them.  The description of a field names the resolver it is    *)
(* registered with.                                                        *)
(***************************************************************************)
SharedNames == {"getUser", "addUser"}

QueryResolvers == {"q1", "q2"}

MutationResolvers == {"m1", "m2"}

\* The field a program registers with the resolver r; the caller has set
\* its Resolve.
ResolvedBy(r) == [Field("String", r) EXCEPT !.Resolve = <<"mine">>]

ResolverRequestNames ==
  { <<"getUser">>, <<"addUser">>, <<"getUser", "Resolver">>, <<"addUser", "Resolver">>,
    <<"mine">> }

ResolverRequests ==
  { Request(n, t, <<>>, <<>>) :
      n \in ResolverRequestNames, t \in {"graphql_query", "graphql_mutation"} }

ResolverReturns ==
  { [result |-> StrV(<<"x">>), err |-> NoError], [result |-> NilV, err |-> ErrorString("boom")] }

DoRegisterQueryAs ==
  /\ Idle
  /\ \E name \in SharedNames, r \in QueryResolvers : RegisterQuery(name, ResolvedBy(r), r)

DoRegisterMutationAs ==
  /\ Idle
  /\ \E name \in SharedNames, r \in MutationResolvers :
       RegisterMutation(name, ResolvedBy(r), r)

\* RegisterQueries with a field for both names and a resolver for some.
DoRegisterQueries ==
  /\ Idle
  /\ \E r \in QueryResolvers, withResolver \in SUBSET SharedNames :
       RegisterQueries([name \in SharedNames |-> ResolvedBy(r)],
                       [name \in withResolver |-> r])

DoRegisterMutations ==
  /\ Idle
  /\ \E r \in MutationResolvers, withResolver \in SUBSET SharedNames :
       RegisterMutations([name \in SharedNames |-> ResolvedBy(r)],
                         [name \in withResolver |-> r])

DoExecuteResolver ==
  /\ Idle
  /\ \E req \in ResolverRequests : Execute(req, ResolverReturns, CheckReturns)

NextResolvers ==
  \/ PluginInit
  \/ DoRegisterQueryAs
  \/ DoRegisterMutationAs
  \/ DoRegisterQueries
  \/ DoRegisterMutations
  \/ DoExecuteResolver
  \/ Return

SpecResolvers == Init /\ [][NextResolvers]_vars

(***************************************************************************)
(* The steps of a plugin in service: it registers a query, a mutation, a   *)
(* function, a REST endpoint, an object type and health checks, and the    *)
(* host calls every method of the plugin service.                          *)
(***************************************************************************)
HealthCheckNames == {"c1", "c2"}

\* What a custom health check returns.
ServeCheckReturns ==
  { [result |-> MapV([status |-> StrV(<<"healthy">>)]), err |-> NoError],
    [result |-> MapV([status |-> StrV(<<"slow">>)]), err |-> NoError],
    [result |-> MapV([status |-> IntV(500)]), err |-> NoError],
    [result |-> MapV([load |-> IntV(1)]), err |-> NoError],
    [result |-> MapV(EmptyMap), err |-> ErrorString("down")] }

ServeRequests ==
  { Request(<<"getUser">>, "graphql_query", <<>>, <<>>),
    Request(<<"addUser">>, "graphql_mutation", <<[id |-> Float64V(10)]>>, <<>>),
    Request(<<"rest", "_", "get", "_", "hello">>, "rest_api", <<>>,
            <<[user_id |-> StrV(<<"u1">>)]>>),
    Request(<<"GET", "_", "/", "hello">>, "rest_api", <<>>, <<>>),
    Request(<<"sync">>, "function", <<>>, <<>>),
    Request(<<"health", "_", "check">>, "system", <<>>, <<>>),
    Request(<<"missing">>, "function", <<>>, <<>>),
    Request(<<"sync">>, "subscription", <<>>, <<>>) }

ServeReturns ==
  { [result |-> MapV(IdOne), err |-> NoError],
    [result |-> SliceV(<<MapV(IdOne)>>), err |-> NoError],
    [result |-> NilV, err |-> ErrorString("boom")] }

Stages == {"init", "run"}

DoRegisterServed ==
  /\ Idle
  /\ \/ RegisterQuery("getUser", Field("String", "d"), "r1")
     \/ RegisterMutation("addUser", Field("String", "d"), "r2")
     \/ RegisterFunction("sync", "f1")
     \/ /\ Len(restAPIs) = 0
        /\ RegisterRESTAPI(RESTEndpoint("GET", "/hello", "d"), "h1")

DoRegisterHealthCheck ==
  /\ Idle
  /\ Len(healthChecks) < MaxChecks
  /\ \E healthCheck \in HealthCheckNames : RegisterHealthCheck(healthCheck)

DoRegisterHealthChecks ==
  /\ Idle
  /\ Len(healthChecks) + 2 <= MaxChecks
  /\ RegisterHealthChecks(<<"c1", "c2">>)

DoRESTApiRegister ==
  /\ Idle
  /\ RESTApiRegister

DoGetVersion ==
  /\ Idle
  /\ GetVersion

DoDebug ==
  /\ Idle
  /\ \E stage \in Stages : Debug(stage)

DoServe ==
  /\ Idle
  /\ \E req \in ServeRequests : Execute(req, ServeReturns, ServeCheckReturns)

\* p.performHealthCheck called, the custom checks returning outcomes.
DoPerformHealthCheck ==
  /\ Idle
  /\ currentPlugin
  /\ \E outcomes \in [1..Len(healthChecks) -> ServeCheckReturns] :
       call' = [op |-> "performHealthCheck", outcomes |-> outcomes,
                result |-> performHealthCheck(outcomes), err |-> NoError]
  /\ UNCHANGED <<registry, response>>

NextServe ==
  \/ PluginInit
  \/ DoRegisterServed
  \/ DoNewObjectType
  \/ DoBuild
  \/ DoRegisterHealthCheck
  \/ DoRegisterHealthChecks
  \/ SchemaRegister
  \/ DoRESTApiRegister
  \/ DoGetVersion
  \/ DoDebug
  \/ DoServe
  \/ DoPerformHealthCheck
  \/ Return

SpecServe == Init /\ [][NextServe]_vars

(***************************************************************************)
(* Calls of the REST argument helpers and of the two serializers of an     *)
(* object field.                                                           *)
(***************************************************************************)
\* The args of a REST handler, as decoded from the request.
BodyValues ==
  { MapV(IdOne), MapV(EmptyMap), SliceV(<<StrV(<<"x">>)>>), SliceV(<<>>), StrV(<<"x">>), NilV }

BodyArgs ==
  UNION { [keys -> BodyValues] : keys \in SUBSET {"body_user", "user"} }

ParamNames == {"user", "items"}

\* The field specs of an object schema.
FieldSpecTypes == {"String", "ID", "User", "DateTime", ""}

FieldSpecs ==
  { ObjectFieldDef(type, "d", nullable, list, listOfNonNull) :
      type \in FieldSpecTypes, nullable \in BOOLEAN, list \in BOOLEAN,
      listOfNonNull \in BOOLEAN }

DoGetBodyParamObject ==
  /\ Idle
  /\ \E args \in BodyArgs, paramName \in ParamNames :
       call' = [op |-> "GetBodyParamObject", args |-> args, paramName |-> paramName,
                out |-> GetBodyParamObject(args, paramName)]
  /\ UNCHANGED <<registry, response>>

DoGetBodyParamArray ==
  /\ Idle
  /\ \E args \in BodyArgs, paramName \in ParamNames :
       call' = [op |-> "GetBodyParamArray", args |-> args, paramName |-> paramName,
                out |-> GetBodyParamArray(args, paramName)]
  /\ UNCHANGED <<registry, response>>

\* One field spec serialized both ways: as serializeObjectTypeDefinition
\* emits its type, and as serializeTypeDefinition emits the type that
\* convertObjectFieldsToGraphQLFields made of it.
DoSerializeObjectField ==
  /\ Idle
  /\ \E fieldDef \in FieldSpecs :
       call' = [op |-> "serializeObjectField", def |-> fieldDef,
                sideChannel |-> serializeObjectFieldType(fieldDef),
                inline |-> MapV(serializeTypeDefinition(convertFieldType(fieldDef)))]
  /\ UNCHANGED <<registry, response>>

NextHelpers ==
  \/ DoGetBodyParamObject
  \/ DoGetBodyParamArray
  \/ DoSerializeObjectField
  \/ Return

SpecHelpers == Init /\ [][NextHelpers]_vars

(***************************************************************************)
(* Properties of the coercion engine, over the parseValue calls.           *)
(***************************************************************************)
\* The call in progress is parseValue with a definition declaring one of types.
DeclaredAs(types) ==
  /\ call.op = "parseValue"
  /\ call.def.t = "map"
  /\ "type" \in DOMAIN call.def.v
  /\ call.def.v["type"].t = "string"
  /\ call.def.v["type"].v \in types

IntTypes == { <<"Int">>, <<"Int", "!">> }

BooleanTypes == { <<"Boolean">>, <<"Boolean", "!">> }

StringListTypes == { <<"[", "String", "]">>, <<"[", "String", "!", "]">> }

IntListTypes == { <<"[", "Int", "]">>, <<"[", "Int", "!", "]">> }

BooleanListTypes == { <<"[", "Boolean", "]">>, <<"[", "Boolean", "!", "]">> }

ObjectListTypes == { <<"[", "Object", "]">>, <<"[", "Object", "!", "]">> }

RecognisedTypes ==
  { <<"Object">> } \cup ObjectListTypes \cup StringListTypes \cup IntListTypes
    \cup BooleanListTypes \cup IntTypes \cup BooleanTypes
    \cup { <<"String">>, <<"String", "!">>, <<"Float">>, <<"Float", "!">> }

RECURSIVE StripZeros(_)
StripZeros(s) == IF Len(s) > 1 /\ s[1] = "0" THEN StripZeros(Tail(s)) ELSE s

\* The string s writes the integer n in base 10: an optional sign, then digits.
Denotes(s, n) ==
  LET u == IF Len(s) > 0 /\ s[1] \in {"+", "-"} THEN Tail(s) ELSE s
  IN  /\ Len(u) > 0
      /\ \A i \in 1..Len(u) : u[i] \in {"0", "1", "2", "3", "4", "5", "6", "7", "8", "9"}
      /\ StripZeros(u) = NatDigits(IF n < 0 THEN 0 - n ELSE n)
      /\ (n < 0 => s[1] = "-")
      /\ (n > 0 => s[1] # "-")

\* The integers written by the strings of the model (at most three digits).
Decimals == (0 - 999)..999

\* n is the float x (in tenths) with its fraction cut off.
TruncTo(x, n) ==
  IF x >= 0 THEN n * 10 <= x /\ x < n * 10 + 10
  ELSE n * 10 >= x /\ x > n * 10 - 10

\* C4 as amended: a value declared Int or Int! is coerced to the int itself
\* for an int or int64, to the float64 cut off toward zero, to the number
\* written by a string that is a base-10 integer in the int range, and to 0
\* for every other raw value, a float32 and an out-of-range string included.
C4_IntCoercion ==
  DeclaredAs(IntTypes) =>
    /\ call.out.t = "int"
    /\ CASE call.raw.t \in {"int", "int64"} -> call.out.v = call.raw.v
         [] call.raw.t = "float64" -> TruncTo(call.raw.v, call.out.v)
         [] call.raw.t = "string" /\ (\E m \in MinInt..MaxInt : Denotes(call.raw.v, m)) ->
              Denotes(call.raw.v, call.out.v)
         [] OTHER -> call.out.v = 0

C4_Witness ==
  /\ DeclaredAs(IntTypes)
  /\ call.raw = StrV(<<"4", "2">>)
  /\ call.out = IntV(42)

\* C4 as claimed: every float is cut off toward zero and every string that
\* is a base-10 integer yields the number it writes.
C4_AsClaimed ==
  DeclaredAs(IntTypes) =>
    /\ call.out.t = "int"
    /\ CASE call.raw.t \in {"int", "int64"} -> call.out.v = call.raw.v
         [] call.raw.t \in {"float64", "float32"} -> TruncTo(call.raw.v, call.out.v)
         [] call.raw.t = "string" /\ (\E m \in Decimals : Denotes(call.raw.v, m)) ->
              Denotes(call.raw.v, call.out.v)
         [] OTHER -> call.out.v = 0

\* C5: coercing a raw mapping against an Object definition with properties
\* P gives a mapping with exactly the raw keys, the keys of P coerced by
\* their property definition and the other keys with their raw value.
C5_ObjectKeepsKeys ==
  (/\ DeclaredAs({ <<"Object">> })
   /\ call.raw.t = "map"
   /\ "properties" \in DOMAIN call.def.v
   /\ call.def.v["properties"].t = "map") =>
    LET P == call.def.v["properties"].v
        raw == call.raw.v
    IN  /\ call.out.t = "map"
        /\ DOMAIN call.out.v = DOMAIN raw
        /\ \A k \in DOMAIN raw :
             call.out.v[k] = IF k \in DOMAIN P THEN parseValue(raw[k], P[k]) ELSE raw[k]

C5_Witness ==
  /\ DeclaredAs({ <<"Object">> })
  /\ "properties" \in DOMAIN call.def.v
  /\ call.def.v["properties"] = MapV([a \in {"a"} |-> Arg(<<"Int">>, "d")])
  /\ call.raw = MapV([a |-> Float64V(10), b |-> Float64V(20)])
  /\ call.out = MapV([a |-> IntV(1), b |-> Float64V(20)])

\* out is the element-wise coercion of an array, or the coercion of a
\* value that is no array as the only element.
ElementWise(raw, out, Scalar(_)) ==
  IF raw.t = "slice"
  THEN Len(out) = Len(raw.v) /\ \A i \in 1..Len(raw.v) : out[i] = Scalar(raw.v[i])
  ELSE out = <<Scalar(raw)>>

\* C7: a value declared [String], [Int] or [Boolean] (or with "!" on the
\* element) is coerced element by element, an array of length n to an array
\* of length n, and a value that is no array to a one-element array.
C7_ListCoercion ==
  /\ DeclaredAs(StringListTypes) =>
       call.out.t = "[]string" /\ ElementWise(call.raw, call.out.v, parseString)
  /\ DeclaredAs(IntListTypes) =>
       call.out.t = "[]int" /\ ElementWise(call.raw, call.out.v, parseInt)
  /\ DeclaredAs(BooleanListTypes) =>
       call.out.t = "[]bool" /\ ElementWise(call.raw, call.out.v, parseBoolean)

C7_Witness ==
  /\ DeclaredAs(IntListTypes)
  /\ call.raw = SliceV(<<Float64V(10), StrV(<<"4", "2">>), BoolV(TRUE)>>)
  /\ call.out = IntSliceV(<<1, 42, 0>>)

\* The definition of the call declares a type the dispatch knows.
Recognised ==
  /\ call.def.t = "map"
  /\ "type" \in DOMAIN call.def.v
  /\ call.def.v["type"].t = "string"
  /\ call.def.v["type"].v \in RecognisedTypes

GoTypes ==
  { "nil", "bool", "int", "int64", "float64", "float32", "string", "map", "slice",
    "[]string", "[]int", "[]bool" }

\* C8: parseValue returns a value for every definition and every raw value,
\* and returns the raw value itself when the definition is no mapping or
\* declares no recognised type.
C8_Total ==
  call.op = "parseValue" =>
    /\ call.out.t \in GoTypes
    /\ ~Recognised => call.out = call.raw
    /\ (DeclaredAs({ <<"Object">> }) /\ call.raw.t # "map") => call.out.t = "map"
    /\ DeclaredAs(ObjectListTypes) => call.out.t = "slice"

C8_Witness ==
  /\ DeclaredAs({ <<"[", "Int", "]", "!">> })
  /\ call.raw = SliceV(<<Float64V(10), StrV(<<"4", "2">>), BoolV(TRUE)>>)
  /\ call.out = call.raw

\* C9: a value declared Boolean or Boolean! is coerced to itself when it is
\* a bool and to false otherwise, the strings "true", "1", "yes" and the
\* number 1 included.
C9_BooleanStrict ==
  DeclaredAs(BooleanTypes) => call.out = BoolV(call.raw.t = "bool" /\ call.raw.v)

C9_Witness ==
  /\ DeclaredAs(BooleanTypes)
  /\ call.raw = StrV(<<"true">>)
  /\ call.out = BoolV(FALSE)

(***************************************************************************)
(* Properties of the type tags and of the payload detection.               *)
(***************************************************************************)
\* Two type tags agree on kind, scalar name, object name and nesting.
RECURSIVE SameShape(_, _)
SameShape(a, b) ==
  /\ a.Kind = b.Kind
  /\ a.Name = b.Name
  /\ a.ScalarType = b.ScalarType
  /\ Len(a.OfType) = Len(b.OfType)
  /\ Len(a.OfType) > 0 => SameShape(a.OfType[1], b.OfType[1])

\* C3: two type tags built with the constructors serialize to equal
\* outputs only if they have the same kind, scalar name, object name and
\* nesting structure.
C3_SerializeInjective ==
  call.op = "serializeTypeDefinition" =>
    (call.outA = call.outB => SameShape(call.a, call.b))

C3_Witness ==
  /\ call.op = "serializeTypeDefinition"
  /\ call.a = createNonNullType(createListType(createObjectType("User", EmptyMap)))
  /\ call.b = createListType(createNonNullType(createObjectType("User", EmptyMap)))
  /\ call.outA # call.outB
  /\ call.outA = [kind |-> StrV(<<"non_null">>),
                  ofType |-> MapV([kind |-> StrV(<<"list">>),
                                   ofType |-> MapV([kind |-> StrV(<<"object">>),
                                                    name |-> StrV(<<"User">>)])])]

IsArray(data) == data.t \in DOMAIN SliceElem

IsMapping(data) == data.t \in DOMAIN MapElem

\* Complex as C10 words it: an array whose element 0 is a mapping, an array
\* or a struct, or a mapping with a complex value.
RECURSIVE ClaimedComplex(_)
ClaimedComplex(data) ==
  \/ /\ IsArray(data)
     /\ Len(data.v) > 0
     /\ LET first == Index(data, 1)
        IN  IsMapping(first) \/ IsArray(first) \/ first.t = "struct"
  \/ /\ IsMapping(data)
     /\ \E key \in DOMAIN data.v : ClaimedComplex(MapIndex(data, key))

\* C10: isComplexArrayData answers true exactly for a non-empty array whose
\* element 0 is a mapping, an array or a struct, and for a mapping one of
\* whose values is complex by the same rule.
C10_AsClaimed ==
  call.op = "isComplexArrayData" => (call.out <=> ClaimedComplex(call.data))

(***************************************************************************)
(* Properties of the argument parsing of a field.                          *)
(***************************************************************************)
\* out holds the declared arguments that raw gives a non-nil value, coerced.
ParsedBy(fieldArgs, raw, out) ==
  /\ DOMAIN out = { k \in DOMAIN raw : k \in DOMAIN fieldArgs /\ raw[k] # NilV }
  /\ \A k \in DOMAIN out : out[k] = parseValue(raw[k], fieldArgs[k])

\* C6 as amended: ParseArgs (and ParseGraphQLArgs, and ParseArgsForResolver
\* for a registered name, the query before the mutation) returns exactly the
\* declared arguments that the raw mapping gives a non-nil value, each
\* coerced to its declared type; ParseArgsForResolver returns the raw
\* mapping itself when no plugin is initialised or the name is not registered.
C6_DeclaredKeys ==
  /\ call.op = "ParseArgs" => ParsedBy(call.args, call.raw, call.out)
  /\ call.op = "ParseArgsForResolver" =>
       IF ~currentPlugin THEN call.out = call.raw
       ELSE IF call.name \in DOMAIN queries
       THEN ParsedBy(queries[call.name].Args, call.raw, call.out)
       ELSE IF call.name \in DOMAIN mutations
       THEN ParsedBy(mutations[call.name].Args, call.raw, call.out)
       ELSE call.out = call.raw

C6_Witness ==
  /\ call.op = "ParseArgsForResolver"
  /\ currentPlugin
  /\ call.name \in DOMAIN queries
  /\ queries[call.name].Args = [k \in {"a"} |-> Arg(<<"Int">>, "d")]
  /\ call.raw = [a |-> Float64V(10), b |-> Float64V(20)]
  /\ call.out = [a \in {"a"} |-> IntV(1)]

\* C6 as claimed: the result has the keys of the raw mapping.
C6_AsClaimed ==
  /\ call.op = "ParseArgs" => DOMAIN call.out = DOMAIN call.raw
  /\ (/\ call.op = "ParseArgsForResolver"
      /\ currentPlugin
      /\ call.name \in DOMAIN queries \cup DOMAIN mutations) =>
       DOMAIN call.out = DOMAIN call.raw

(***************************************************************************)
(* Properties of the emitted schema.                                       *)
(***************************************************************************)
Kind(kind) == StrV(<<kind>>)

Emitted(name) == response.Queries[name].v

AsRegistered(name, field) == [field EXCEPT !.Resolve = <<name, "Resolver">>]

\* C1: a query registered with NonNullListField(T, ...) is emitted with the
\* type non_null -> list -> non_null -> scalar T, and nothing else in it.
C1_NonNullListEmitted ==
  response.op = "SchemaRegister" =>
    /\ response.err = ""
    /\ \A name \in DOMAIN queries, T \in ScalarNames :
         queries[name] = AsRegistered(name, NonNullListField(T, "d")) =>
           Emitted(name)["type"] =
             MapV([kind |-> Kind("non_null"),
                   ofType |->
                     MapV([kind |-> Kind("list"),
                           ofType |->
                             MapV([kind |-> Kind("non_null"),
                                   ofType |-> MapV([kind |-> Kind("scalar"),
                                                    scalarType |-> StrV(<<T>>),
                                                    name |-> StrV(<<T>>)])])])])

C1_Witness ==
  /\ response.op = "SchemaRegister"
  /\ "listUsers" \in DOMAIN queries
  /\ queries["listUsers"] = AsRegistered("listUsers", NonNullListField("DateTime", "d"))
  /\ Emitted("listUsers")["type"].v["ofType"].v["ofType"].v["ofType"].v["name"]
       = StrV(<<"DateTime">>)

\* The field specs the builder steps can give to a name, and the schemas
\* they can build.
SpecsOf(name) ==
  (IF name \in FieldNames
   THEN { ObjectFieldDef(type, "d", nullable, FALSE, FALSE) :
            type \in {"String", "Profile"}, nullable \in BOOLEAN }
   ELSE {})
  \cup
  (IF name \in ListFieldNames
   THEN { ObjectFieldDef(type, "d", nullable, TRUE, listOfNonNull) :
            type \in ItemTypes, nullable \in BOOLEAN, listOfNonNull \in BOOLEAN }
   ELSE {})

Schemas ==
  { [TypeName |-> typeName, Description |-> "d", Fields |-> fields] :
      typeName \in TypeNames,
      fields \in UNION { { m \in [D -> UNION { SpecsOf(n) : n \in D }] :
                             \A n \in D : m[n] \in SpecsOf(n) } :
                         D \in SUBSET (FieldNames \cup ListFieldNames) } }

\* The type C2 gives to a field: the base type, in a list when the field is
\* a list (the items non-null when listOfNonNull), non-null on the outside
\* exactly when the field is not nullable.
FieldTypeOf(fieldDef) ==
  LET base == IF fieldDef.Type \in {"String", "Int", "Boolean", "Float", "ID"}
              THEN MapV([kind |-> Kind("scalar"), name |-> StrV(<<fieldDef.Type>>),
                         scalarType |-> StrV(<<fieldDef.Type>>)])
              ELSE MapV([kind |-> Kind("object"), name |-> StrV(<<fieldDef.Type>>)])
      item == IF fieldDef.ListOfNonNull
              THEN MapV([kind |-> Kind("non_null"), ofType |-> base])
              ELSE base
      inner == IF fieldDef.List THEN MapV([kind |-> Kind("list"), ofType |-> item]) ELSE base
  IN  IF fieldDef.Nullable THEN inner
      ELSE MapV([kind |-> Kind("non_null"), ofType |-> inner])

\* C2: a query registered with ListOfObjectsField(desc, S) is emitted with
\* the type list of object S.typeName, and every field of S has in it the
\* type FieldTypeOf gives to its spec.
C2_ListOfObjectsEmitted ==
  response.op = "SchemaRegister" =>
    \A name \in DOMAIN queries, S \in Schemas :
      queries[name] = AsRegistered(name, ListOfObjectsField("d", S)) =>
        LET type == Emitted(name)["type"].v
        IN  /\ type["kind"] = Kind("list")
            /\ type["ofType"].v["kind"] = Kind("object")
            /\ type["ofType"].v["name"] = StrV(<<S.TypeName>>)
            /\ \A f \in DOMAIN S.Fields :
                 type["ofType"].v["fields"].v[f].v["type"] = FieldTypeOf(S.Fields[f])

UserSchema ==
  [TypeName |-> "User", Description |-> "d",
   Fields |-> [f \in {"id", "tags"} |->
                 IF f = "id" THEN ObjectFieldDef("String", "d", FALSE, FALSE, FALSE)
                 ELSE ObjectFieldDef("Profile", "d", TRUE, TRUE, TRUE)]]

C2_Witness ==
  /\ response.op = "SchemaRegister"
  /\ "listUsers" \in DOMAIN queries
  /\ queries["listUsers"] = AsRegistered("listUsers", ListOfObjectsField("d", UserSchema))
  /\ Emitted("listUsers")["type"].v["ofType"].v["fields"].v["id"].v["type"].v["kind"]
       = Kind("non_null")
  /\ Emitted("listUsers")["type"].v["ofType"].v["fields"].v["tags"].v["type"]
       = MapV([kind |-> Kind("list"),
               ofType |-> MapV([kind |-> Kind("non_null"),
                                ofType |-> MapV([kind |-> Kind("object"),
                                                 name |-> StrV(<<"Profile">>)])])])

(***************************************************************************)
(* Properties of Execute, over the requests the host sends.                *)
(***************************************************************************)
\* Execute has answered a request after its handler returned without error.
HandlerReturned == response.op = "Execute" /\ call.op = "handler" /\ call.err = NoError

\* The envelope m carries the request's function name and type.
NamesRequest(m) ==
  /\ {"data", "function_name", "function_type"} \subseteq DOMAIN m
  /\ m["function_name"] = StrV(response.req.FunctionName)
  /\ m["function_type"] = StrV(W(response.req.FunctionType))

\* C11: when the dispatched handler returns without error, the response
\* carries the envelope {data, function_name, function_type}: as a JSON
\* string flagged serialization = "json_bytes" exactly when the result is
\* complex per isComplexArrayData, as a structured value otherwise.
C11_AsClaimed ==
  HandlerReturned =>
    /\ response.Success
    /\ Len(response.Result) = 1
    /\ IF isComplexArrayData(call.result)
       THEN /\ response.Result[1].Value.t = "json"
            /\ NamesRequest(response.Result[1].Value.v.v)
            /\ response.Result[1].Value.v.v["data"] = Marshal(call.result)
            /\ "serialization" \in DOMAIN response.Result[1].Value.v.v
            /\ response.Result[1].Value.v.v["serialization"] = StrV(<<"json_bytes">>)
       ELSE /\ response.Result[1].Value.t = "map"
            /\ NamesRequest(response.Result[1].Value.v)
            /\ response.Result[1].Value.v["data"] = Marshal(call.result)
            /\ "serialization" \notin DOMAIN response.Result[1].Value.v

\* The name is spelled rest_<method>_<path>: a second "_" follows "rest_".
IsNewFormat(n) ==
  /\ Len(n) >= 3
  /\ n[1] = "rest"
  /\ n[2] = "_"
  /\ \E i \in 3..Len(n) : n[i] = "_"

\* METHOD_/seg1/seg2/... for a name spelled rest_<method>_seg1_seg2_...
Rebuilt(n) ==
  LET u == CHOOSE i \in 3..Len(n) : n[i] = "_" /\ \A j \in 3..(i - 1) : n[j] # "_"
      segments == [i \in 1..(Len(n) - u) |-> IF n[u + i] = "_" THEN "/" ELSE n[u + i]]
  IN  Text(ToUpper(SubSeq(n, 3, u - 1))) \o "_/" \o Text(segments)

\* The handler Execute invoked for the request it has answered, if any.
Invoked == IF call.op = "handler" THEN {call.handler} ELSE {}

RestGetHello == <<"rest", "_", "get", "_", "hello">>

RestGetUsersId == <<"rest", "_", "get", "_", "users", "_", ":id">>

\* C12: a rest_api request invokes the handler registered under the literal
\* function name; on a miss, a name rest_<method>_<path> invokes the handler
\* registered under METHOD_/seg1/seg2/...; otherwise no handler is invoked
\* and the response is a dispatch miss.  rest_get_hello reaches GET_/hello
\* and rest_get_users_:id reaches GET_/users/:id.
C12_RestDispatch ==
  (response.op = "Execute" /\ response.req.FunctionType = "rest_api") =>
    LET n == response.req.FunctionName
    IN  /\ IF Text(n) \in DOMAIN restHandlers
           THEN Invoked = {restHandlers[Text(n)]}
           ELSE IF IsNewFormat(n) /\ Rebuilt(n) \in DOMAIN restHandlers
           THEN Invoked = {restHandlers[Rebuilt(n)]}
           ELSE /\ Invoked = {}
                /\ ~response.Success
                /\ response.Message = "Unknown REST handler: " \o Text(n)
        /\ (n = RestGetHello /\ DOMAIN restHandlers = {"GET_/hello"})
             => Invoked = {restHandlers["GET_/hello"]}
        /\ (n = RestGetUsersId /\ "GET_/users/:id" \in DOMAIN restHandlers)
             => Invoked = {restHandlers["GET_/users/:id"]}

C12_Witness ==
  /\ response.op = "Execute"
  /\ response.req.FunctionType = "rest_api"
  /\ response.req.FunctionName = RestGetHello
  /\ DOMAIN restHandlers = {"GET_/hello"}
  /\ Invoked = {"h2"}
  /\ response.Success

\* No handler is registered for the request: for its name under its
\* function type, or for its function type at all.
Unregistered(req) ==
  CASE req.FunctionType \in {"graphql_query", "graphql_mutation"} ->
         Text(req.FunctionName) \notin DOMAIN resolvers
    [] req.FunctionType = "rest_api" ->
         /\ Text(req.FunctionName) \notin DOMAIN restHandlers
         /\ ~(IsNewFormat(req.FunctionName)
               /\ Rebuilt(req.FunctionName) \in DOMAIN restHandlers)
    [] req.FunctionType \in {"function", "system"} ->
         Text(req.FunctionName) \notin DOMAIN functions
    [] OTHER -> TRUE

\* C13: an Execute call for a name not registered for its function type, or
\* for an unsupported function type, answers success = false with a message
\* and no transport error, invokes no handler and leaves the registry as it
\* was.
C13_DispatchMiss ==
  [][(response.op = "none" /\ response'.op = "Execute" /\ Unregistered(response'.req))
       => /\ ~response'.Success
          /\ response'.Message # ""
          /\ response'.err = ""
          /\ Len(response'.Result) = 0
          /\ call' = NoCall
          /\ UNCHANGED registry]_vars

C13_Witness ==
  /\ response.op = "Execute"
  /\ response.req.FunctionType = "graphql_query"
  /\ response.req.FunctionName = <<"missing">>
  /\ DOMAIN resolvers # {}
  /\ DOMAIN restHandlers # {}
  /\ ~response.Success
  /\ call = NoCall

\* C14: when the resolver of a graphql_query or graphql_mutation request
\* returns an error, the response carries it as a GraphQL error object:
\* an errors array whose entry has a message and an extensions code.
C14_AsClaimed ==
  (/\ response.op = "Execute"
   /\ response.req.FunctionType \in {"graphql_query", "graphql_mutation"}
   /\ call.op = "handler"
   /\ call.err # NoError)
    => /\ Len(response.Result) = 1
       /\ response.Result[1].Value.t = "map"
       /\ "errors" \in DOMAIN response.Result[1].Value.v
       /\ response.Result[1].Value.v["errors"].t = "slice"
       /\ \E i \in 1..Len(response.Result[1].Value.v["errors"].v) :
            LET e == response.Result[1].Value.v["errors"].v[i]
            IN  /\ e.t = "map"
                /\ {"message", "extensions"} \subseteq DOMAIN e.v
                /\ e.v["extensions"].t = "map"
                /\ "code" \in DOMAIN e.v["extensions"].v

\* The context data of the request Execute has answered.
ContextData == IF Len(response.req.Context) = 0 THEN EmptyMap ELSE response.req.Context[1]

Defaults == { <<>>, << <<"fallback">> >> }

\* C15: the dispatched handler receives every context entry k both as
\* args["context_" + k], also when the request args held that key, and as
\* the value of its Go context under k; the two context readers agree on
\* every string-valued entry.
C15_ContextBothWays ==
  (response.op = "Execute" /\ call.op = "handler") =>
    \A k \in DOMAIN ContextData :
      /\ ("context_" \o k) \in DOMAIN call.args
      /\ call.args["context_" \o k] = ContextData[k]
      /\ k \in DOMAIN call.ctx
      /\ call.ctx[k] = ContextData[k]
      /\ \A d \in Defaults :
           /\ GetContextString(call.args, k, d) = GetContextFromContext(call.ctx, k, d)
           /\ ContextData[k].t = "string" => GetContextString(call.args, k, d) = ContextData[k].v

C15_Witness ==
  /\ response.op = "Execute"
  /\ call.op = "handler"
  /\ Len(response.req.Args) = 1
  /\ "context_user_id" \in DOMAIN response.req.Args[1]
  /\ "user_id" \in DOMAIN ContextData
  /\ response.req.Args[1]["context_user_id"] # ContextData["user_id"]
  /\ call.args["context_user_id"] = StrV(<<"u1">>)
  /\ "tenant_id" \in DOMAIN ContextData

(***************************************************************************)
(* Properties of the object-schema builder and of the emitted object       *)
(* types, over programs declaring several types.                           *)
(***************************************************************************)
\* SchemaRegister has answered with a schema.
Answered == response.op = "SchemaRegister" /\ response.err = ""

\* The objectTypes value of the synthetic query entry.
EmittedObjectTypes == response.Queries["__objectTypes"].v["objectTypes"].v

\* C16 as stated: the queries map SchemaRegister returns has the entry
\* __objectTypes exactly when the object-type registry is not empty, and
\* every registered query is there under its own name.
C16_AsClaimed ==
  Answered =>
    /\ ("__objectTypes" \in DOMAIN response.Queries) <=> (DOMAIN objectTypes # {})
    /\ \A q \in DOMAIN queries :
         /\ q \in DOMAIN response.Queries
         /\ response.Queries[q] = MapV(serializeGraphQLField(queries[q]))

\* The entry __objectTypes of the returned queries map is the synthetic one.
Synthetic ==
  /\ "__objectTypes" \in DOMAIN response.Queries
  /\ response.Queries["__objectTypes"].t = "map"
  /\ "objectTypes" \in DOMAIN response.Queries["__objectTypes"].v

\* C16: the queries map SchemaRegister returns has the synthetic entry
\* __objectTypes, the one carrying an objectTypes value, exactly when the
\* object-type registry is not empty; that value then has one entry per
\* registered schema, under the schema's type name, and every registered
\* query of another name than __objectTypes is still there under its own
\* name.  A query registered as __objectTypes is there only while the
\* registry is empty.
C16_ObjectTypesEntry ==
  Answered =>
    /\ Synthetic <=> (DOMAIN objectTypes # {})
    /\ Synthetic =>
         /\ DOMAIN EmittedObjectTypes = DOMAIN objectTypes
         /\ \A n \in DOMAIN objectTypes :
              /\ EmittedObjectTypes[n].v["name"] = StrV(W(n))
              /\ DOMAIN EmittedObjectTypes[n].v["fields"].v
                   = DOMAIN Load(objectTypes[n]).Fields
    /\ \A q \in DOMAIN queries :
         (q # "__objectTypes" \/ DOMAIN objectTypes = {}) =>
           /\ q \in DOMAIN response.Queries
           /\ response.Queries[q] = MapV(serializeGraphQLField(queries[q]))
    /\ DOMAIN response.Queries \subseteq DOMAIN queries \cup {"__objectTypes"}

C16_Witness ==
  /\ Answered
  /\ DOMAIN objectTypes = SchemaTypeNames
  /\ DOMAIN queries = {"listUsers", "__objectTypes"}
  /\ DOMAIN response.Queries = {"listUsers", "__objectTypes"}
  /\ Synthetic

\* The step sets the entry fieldName of builder b's schema to fieldDef and
\* leaves every other entry, of this and of every other schema, as it was.
Rewritten(b, fieldName, fieldDef) ==
  LET before == fieldMaps[builders[b].Fields]
      after == fieldMaps'[builders'[b].Fields]
  IN  /\ builders' = builders
      /\ DOMAIN after = DOMAIN before \cup {fieldName}
      /\ after[fieldName] = fieldDef
      /\ \A other \in DOMAIN before \ {fieldName} : after[other] = before[other]
      /\ \A c \in (1..Len(builders)) \ {b} :
           fieldMaps'[builders[c].Fields] = fieldMaps[builders[c].Fields]

\* C17: in every state every Add*Field call succeeds and sets the schema's
\* entry for its name to the field spec it was given, whether or not the
\* name was there before, leaving the entries of the other names as they
\* were: the last call for a name wins.
C17_LastWriteWins ==
  \A b \in 1..Len(builders) :
    /\ \A description \in Descriptions :
         ENABLED (/\ AddStringField(b, "id", description, FALSE)
                  /\ Rewritten(b, "id",
                               ObjectFieldDef("String", description, FALSE, FALSE, FALSE)))
    /\ \A objectType \in SchemaTypeNames :
         ENABLED (/\ AddObjectField(b, "ref", "d", objectType, TRUE)
                  /\ Rewritten(b, "ref", ObjectFieldDef(objectType, "d", TRUE, FALSE, FALSE)))
    /\ ENABLED (/\ AddListField(b, "ref", "d", "User", FALSE, TRUE)
                /\ Rewritten(b, "ref", ObjectFieldDef("User", "d", FALSE, TRUE, TRUE)))

\* A built schema holds what the last calls for its two names gave: the
\* second description of id and the list that replaced the reference.
C17_Witness ==
  \E S \in built :
    /\ DOMAIN Load(S).Fields = {"id", "ref"}
    /\ Load(S).Fields["id"].Description = "second"
    /\ Load(S).Fields["ref"] = ObjectFieldDef("User", "d", FALSE, TRUE, TRUE)

\* C18: Build returns the builder's schema; with a plugin active it is then
\* what GetObjectType gives for its type name, the other registry entries
\* staying as they were; with no plugin active nothing is registered.
C18_BuildRegisters ==
  [][\A b \in 1..Len(builders) :
       Build(b) =>
         /\ builders[b] \in built'
         /\ fieldMaps'[builders[b].Fields] = fieldMaps[builders[b].Fields]
         /\ IF currentPlugin
            THEN /\ (GetObjectType(builders[b].TypeName))' = <<builders[b], TRUE>>
                 /\ \A n \in SchemaTypeNames \ {builders[b].TypeName} :
                      (GetObjectType(n))' = GetObjectType(n)
            ELSE objectTypes' = objectTypes]_vars

\* A schema referring to a type that is declared but not registered has
\* been built and registered.
C18_Witness ==
  /\ "User" \in DOMAIN objectTypes
  /\ "Profile" \notin DOMAIN objectTypes
  /\ "ref" \in DOMAIN Load(objectTypes["User"]).Fields
  /\ Load(objectTypes["User"]).Fields["ref"].Type = "Profile"
  /\ \E b \in 1..Len(builders) : builders[b].TypeName = "Profile"
  /\ GetObjectType("User")[2]

\* C19: the schema Build returned does not change: no later step changes
\* the field map of a built schema.
C19_AsClaimed ==
  [][\A S \in built : fieldMaps'[S.Fields] = fieldMaps[S.Fields]]_vars

\* The innermost type of an emitted type, under its list and non-null wrappers.
RECURSIVE Unwrapped(_)
Unwrapped(type) == IF "ofType" \in DOMAIN type.v THEN Unwrapped(type.v["ofType"]) ELSE type

\* The emitted type is a bare reference to the object type typeName.
BareReference(type, typeName) ==
  Unwrapped(type).v = [kind |-> StrV(<<"object">>), name |-> StrV(W(typeName))]

\* C20: SchemaRegister answers for every set of registered schemas, also
\* when they refer to themselves or to each other in a cycle, and emits
\* every field of an object type as the bare reference {kind: "object",
\* name}, without a fields entry, in the __objectTypes entry and inside the
\* return type of a query.
C20_ObjectsByReference ==
  /\ (response.op = "SchemaRegister") => Answered
  /\ Answered =>
       /\ \A n \in DOMAIN objectTypes :
            \A f \in DOMAIN Load(objectTypes[n]).Fields :
              ~isScalarType(Load(objectTypes[n]).Fields[f].Type)
                => BareReference(EmittedObjectTypes[n].v["fields"].v[f].v["type"],
                                 Load(objectTypes[n]).Fields[f].Type)
       /\ \A q \in DOMAIN queries \ {"__objectTypes"} :
            LET returned == Unwrapped(response.Queries[q].v["type"])
            IN  "fields" \in DOMAIN returned.v =>
                  \A f \in DOMAIN returned.v["fields"].v :
                    LET type == Unwrapped(returned.v["fields"].v[f].v["type"])
                    IN  type.v["kind"] = StrV(<<"object">>)
                          => DOMAIN type.v = {"kind", "name"}

C20_Witness ==
  /\ Answered
  /\ DOMAIN objectTypes = SchemaTypeNames
  /\ "ref" \in DOMAIN Load(objectTypes["User"]).Fields
  /\ "ref" \in DOMAIN Load(objectTypes["Profile"]).Fields
  /\ Load(objectTypes["User"]).Fields["ref"].Type = "Profile"
  /\ Load(objectTypes["Profile"]).Fields["ref"].Type = "User"
  /\ "listUsers" \in DOMAIN queries
  /\ "fields" \in DOMAIN Unwrapped(response.Queries["listUsers"].v["type"]).v

(***************************************************************************)
(* Properties of the query and mutation registries and of their dispatch.  *)
(***************************************************************************)
\* Execute has answered a GraphQL request of the given function type.
AnsweredGraphQL(functionType) ==
  response.op = "Execute" /\ response.req.FunctionType = functionType

\* C21: every entry of the query registry and of the mutation registry has
\* its Resolve equal to its own name followed by "Resolver", whatever the
\* caller set, and a resolver is registered under the entry's name; Execute
\* looks a GraphQL request up under its function name: it invokes the
\* resolver registered under that name, and none when there is none, also
\* when the function name is the Resolve of a registered entry.
C21_ResolveIsDerived ==
  /\ \A name \in DOMAIN queries :
       queries[name].Resolve = <<name, "Resolver">> /\ name \in DOMAIN resolvers
  /\ \A name \in DOMAIN mutations :
       mutations[name].Resolve = <<name, "Resolver">> /\ name \in DOMAIN resolvers
  /\ (AnsweredGraphQL("graphql_query") \/ AnsweredGraphQL("graphql_mutation")) =>
       IF Text(response.req.FunctionName) \in DOMAIN resolvers
       THEN Invoked = {resolvers[Text(response.req.FunctionName)]}
       ELSE /\ Invoked = {}
            /\ ~response.Success
            /\ response.Message
                 = "Unknown GraphQL resolver: " \o Text(response.req.FunctionName)

\* A request named by the Resolve of a registered query has found no resolver.
C21_Witness ==
  /\ AnsweredGraphQL("graphql_query")
  /\ "getUser" \in DOMAIN queries
  /\ "addUser" \in DOMAIN mutations
  /\ response.req.FunctionName = queries["getUser"].Resolve
  /\ Invoked = {}
  /\ ~response.Success

\* C26: a graphql_query request for a registered query invokes the resolver
\* given to the latest RegisterQuery of that name, and a graphql_mutation
\* request for a registered mutation the resolver given to the latest
\* RegisterMutation of that name, also when a query and a mutation share
\* the name.
C26_AsClaimed ==
  /\ AnsweredGraphQL("graphql_query") =>
       \A name \in DOMAIN queries :
         Text(response.req.FunctionName) = name => Invoked = {queries[name].Description}
  /\ AnsweredGraphQL("graphql_mutation") =>
       \A name \in DOMAIN mutations :
         Text(response.req.FunctionName) = name => Invoked = {mutations[name].Description}

(***************************************************************************)
(* Properties of the plugin service as a whole.                            *)
(***************************************************************************)
ServiceMethods == {"SchemaRegister", "RESTApiRegister", "Execute", "Debug", "GetVersion"}

Reported == call.op = "performHealthCheck"

\* A custom check failed: it returned an error, or a report whose status
\* is a string other than "healthy".
Failing(outcome) ==
  \/ outcome.err # NoError
  \/ /\ "status" \in DOMAIN outcome.result.v
     /\ outcome.result.v["status"].t = "string"
     /\ outcome.result.v["status"].v # <<"healthy">>

CheckKeys == <<"custom_check_0", "custom_check_1", "custom_check_2">>

\* C23: the status of the health report is "degraded" exactly when a
\* custom check failed and "healthy" otherwise, also with no custom check;
\* the report has an entry for every registered check, under custom_check_
\* and its index counted from 0: the check's own report, or its error.
C23_HealthStatus ==
  /\ Reported =>
       /\ Len(call.outcomes) = Len(healthChecks)
       /\ call.result.v["status"]
            = StrV(IF \E i \in 1..Len(call.outcomes) : Failing(call.outcomes[i])
                   THEN <<"degraded">> ELSE <<"healthy">>)
       /\ ("custom_health_checks" \in DOMAIN call.result.v) <=> (Len(healthChecks) > 0)
       /\ Len(healthChecks) > 0 =>
            /\ DOMAIN call.result.v["custom_health_checks"].v
                 = { CheckKeys[i] : i \in 1..Len(healthChecks) }
            /\ \A i \in 1..Len(healthChecks) :
                 call.result.v["custom_health_checks"].v[CheckKeys[i]]
                   = IF call.outcomes[i].err # NoError
                     THEN MapV([status |-> StrV(<<"error">>),
                                error |-> StrV(<<call.outcomes[i].err.Message>>)])
                     ELSE call.outcomes[i].result
  /\ (response.op = "Execute" /\ Invoked = {"performHealthCheck"}) =>
       /\ call.result.v["status"] \in {StrV(<<"healthy">>), StrV(<<"degraded">>)}
       /\ Len(healthChecks) = 0 => call.result.v["status"] = StrV(<<"healthy">>)

\* The first of two checks returned an error, the second is healthy.
C23_Witness ==
  /\ Reported
  /\ Len(call.outcomes) = 2
  /\ call.outcomes[1].err # NoError
  /\ ~Failing(call.outcomes[2])
  /\ call.result.v["status"] = StrV(<<"degraded">>)
  /\ call.result.v["custom_health_checks"].v["custom_check_1"] = call.outcomes[2].result

(***************************************************************************)
(* Properties of the REST naming conventions.                              *)
(***************************************************************************)
\* The two names of each endpoint, by its handler key: METHOD_/s1/.../sn
\* and rest_<method>_s1_..._sn.
ConventionNames ==
  [e \in {"GET_/hello", "GET_/users/:id", "POST_/user_profile"} |->
     CASE e = "GET_/hello" ->
            { <<"GET", "_", "/", "hello">>, <<"rest", "_", "get", "_", "hello">> }
       [] e = "GET_/users/:id" ->
            { <<"GET", "_", "/", "users", "/", ":id">>,
              <<"rest", "_", "get", "_", "users", "_", ":id">> }
       [] e = "POST_/user_profile" ->
            { <<"POST", "_", "/", "user", "_", "profile">>,
              <<"rest", "_", "post", "_", "user", "_", "profile">> }]

\* C24: a rest_api request whose function name is the old-format or the
\* new-format name of a registered endpoint invokes the handler registered
\* for that endpoint.
C24_AsClaimed ==
  (response.op = "Execute" /\ response.req.FunctionType = "rest_api") =>
    \A i \in 1..Len(restAPIs) :
      response.req.FunctionName \in ConventionNames[restAPIs[i].Handler]
        => Invoked = {restHandlers[restAPIs[i].Handler]}

(***************************************************************************)
(* Properties of the REST argument helpers.                                *)
(***************************************************************************)
\* C25: GetBodyParamObject and GetBodyParamArray fall back to the
\* unprefixed key: called on args that have no key "body_" + name and hold
\* an object (an array) under name, they return that object (array).
C25_AsClaimed ==
  /\ (/\ call.op = "GetBodyParamObject"
      /\ ("body_" \o call.paramName) \notin DOMAIN call.args
      /\ call.paramName \in DOMAIN call.args
      /\ call.args[call.paramName].t = "map")
       => call.out = <<call.args[call.paramName].v>>
  /\ (/\ call.op = "GetBodyParamArray"
      /\ ("body_" \o call.paramName) \notin DOMAIN call.args
      /\ call.paramName \in DOMAIN call.args
      /\ call.args[call.paramName].t = "slice")
       => call.out = <<call.args[call.paramName].v>>

(***************************************************************************)
(* Properties of the two serializers of an object field.                   *)
(***************************************************************************)
\* C27 as stated: for every field spec, the empty type name included, the
\* type emitted in the __objectTypes entry equals the type emitted inline.
C27_AsClaimed ==
  (call.op = "serializeObjectField") => call.sideChannel = call.inline

\* The emitted type with the name entry taken from its innermost type.
RECURSIVE Unnamed(_)
Unnamed(type) ==
  IF "ofType" \in DOMAIN type.v
  THEN MapV([type.v EXCEPT !["ofType"] = Unnamed(type.v["ofType"])])
  ELSE MapV([k \in DOMAIN type.v \ {"name"} |-> type.v[k]])

\* C27: for every field spec whose type name is not empty, the type emitted
\* in the __objectTypes entry equals the type emitted inline in a query's
\* return type; for the empty type name the two differ in the name entry
\* alone, which the entry has (name: "") and the inline type has not.
C27_SerializersAgree ==
  (call.op = "serializeObjectField") =>
    IF call.def.Type # ""
    THEN call.sideChannel = call.inline
    ELSE /\ call.inline = Unnamed(call.sideChannel)
         /\ Unwrapped(call.sideChannel).v["name"] = StrV(W(""))
         /\ "name" \notin DOMAIN Unwrapped(call.inline).v

\* A non-null list of non-null references to an object type was serialized.
C27_Witness ==
  /\ call.op = "serializeObjectField"
  /\ call.def = ObjectFieldDef("User", "d", FALSE, TRUE, TRUE)
  /\ call.sideChannel = call.inline
  /\ Unwrapped(call.inline).v = [kind |-> StrV(<<"object">>), name |-> StrV(<<"User">>)]

(***************************************************************************)
(* Properties of a second pass of the coercion engine.                     *)
(***************************************************************************)
\* C28: argument coercion is idempotent: for every field definition and
\* every raw argument mapping, coercing the coerced arguments once more
\* gives the coerced arguments.
C28_AsClaimed ==
  (call.op = "ParseArgs") => ParseArgs(call.args, call.out) = call.out

(***************************************************************************)
(* Properties of the context keys a handler receives.                      *)
(***************************************************************************)
ContextNames == {"user_id", "tenant_id", "project_id", "plugin_id"}

\* C29: the args passed to a dispatched handler hold a key "context_" + k
\* only if the context of the Execute request holds k, so GetContextString
\* returns no value that came from the request args.
C29_AsClaimed ==
  (response.op = "Execute" /\ call.op = "handler") =>
    \A k \in ContextNames :
      /\ ("context_" \o k) \in DOMAIN call.args => k \in DOMAIN ContextData
      /\ k \notin DOMAIN ContextData => GetContextString(call.args, k, <<>>) = <<>>

(***************************************************************************)
(* Properties of the not-null marker in the coercion dispatch.             *)
(***************************************************************************)
\* The type strings the dispatch recognises, without a not-null marker.
UnmarkedTypes ==
  { <<"Object">>, <<"[", "Object", "]">>, <<"[", "String", "]">>, <<"[", "Int", "]">>,
    <<"[", "Boolean", "]">>, <<"String">>, <<"Int">>, <<"Boolean">>, <<"Float">> }

\* C30: for every type string t the dispatch recognises, a value declared
\* with type t + "!" is coerced exactly as a value declared with type t.
C30_AsClaimed ==
  (call.op = "parseValue") =>
    \A t \in UnmarkedTypes :
      call.def = Arg(t, "d") => parseValue(call.raw, NonNullArg(t, "d")) = call.out

====
